---- MODULE Spec2Model ----
(***************************************************************************)
(* A model of the trading bot's core: the token-bucket RateLimiter        *)
(* (bot/connectors/rate_limiter.py) and the OrderManager                  *)
(* (bot/execution.py) with the exchange it talks to.                      *)
(*                                                                         *)
(* The code runs on one asyncio event loop: a coroutine runs without      *)
(* interruption from one suspending await to the next, so every action    *)
(* below is one such run.  `async with self._lock` in TokenBucket.consume *)
(* never suspends (nothing awaits while holding the lock), the polling    *)
(* sleep and the REST round trips do.                                     *)
(***************************************************************************)
EXTENDS Integers, Sequences, FiniteSets, TLC

(***************************************************************************)
(* Bounds of the model.                                                   *)
(***************************************************************************)
MaxCallers == 2
MaxChecks == 2
MaxUpdates == 1
MaxAdvances == 2
BurstHorizon == 100
MaxOrders == 1
MaxInFlight == 2
MaxRestCalls == 3
MaxFills == 3
MaxRiskFills == 2
MaxSignals == 2
MaxEmitted == 2
MaxConnections == 2
MaxFrames == 2
MaxDepthUpdates == 3
MaxSends == 3
MaxBars == 2
MaxRuns == 2
MaxStrategyFills == 2
MaxQuotes == 4
MaxCloses == 1
MaxDispatched == 3
MaxKlines == 1005

(***************************************************************************)
(* Time.  One tick is the polling sleep of wait_for_tokens (0.01 s).      *)
(* Token counts are kept in units of 1/Scale token, so that every refill  *)
(* rate (capacity per second, per 60 s, per 86400 s) is a whole number of *)
(* units per tick and the arithmetic is exact.                            *)
(***************************************************************************)
TicksPerSecond == 100
SecondsPerMinute == 60
SecondsPerDay == 86400

Scale == TicksPerSecond * SecondsPerDay

Min(a, b) == IF a <= b THEN a ELSE b

(***************************************************************************)
(* The six buckets, in the order wait_for_request and check_request visit *)
(* them: requests per second, minute, day (1..3), weight per second,      *)
(* minute, day (4..6).                                                    *)
(***************************************************************************)
Buckets == 1 .. 6
RequestBuckets == 1 .. 3
WeightBuckets == 4 .. 6

PeriodTicks(i) ==
    IF i \in {1, 4} THEN TicksPerSecond
    ELSE IF i \in {2, 5} THEN TicksPerSecond * SecondsPerMinute
    ELSE TicksPerSecond * SecondsPerDay

\* tokens a call of weight w asks of bucket i
Need(i, w) == IF i \in RequestBuckets THEN 1 ELSE w

Weights == {1, 2}

\* RateLimit configurations (requests s/m/d, weight s/m/d) the model draws from
Quotas == { <<1, 2, 2, 2, 3, 3>>, <<2, 3, 3, 2, 3, 3>> }

\* the burst scenario: requests_per_second = 10, no other bucket limiting
BurstQuota == <<10, 20, 20, 20, 20, 20>>
BurstCallers == 1 .. 15

VARIABLES
    now,                    \* time.time(), in ticks
    rate_limits,            \* RateLimiter.rate_limits
    gen,                    \* how many times update_rate_limits replaced the buckets
    buckets,                \* every TokenBucket object made so far: buckets[g][i]
    pc,                     \* per caller of wait_for_request: "idle", "wait", "done"
    idx,                    \* the bucket a waiting caller polls
    ref,                    \* the generation of the TokenBucket object it polls
    wake,                   \* the earliest tick its sleep(0.01) ends
    weight,                 \* the weight it asked for
    total_requests,
    total_weight,
    rate_limited_requests,
    debited,                \* observer: the buckets each caller has debited
    callOrder,              \* observer: callers in the order they called
    retOrder,               \* observer: callers in the order they returned
    lastCheck,              \* observer: result and debits of the last check_request
    staleDebit,             \* observer: callers that debited a replaced bucket
    admittedNow             \* observer: requests admitted during the current tick

rlVars == << now, rate_limits, gen, buckets, pc, idx, ref, wake, weight,
             total_requests, total_weight, rate_limited_requests,
             debited, callOrder, retOrder, lastCheck, staleDebit, admittedNow >>

(***************************************************************************)
(* TokenBucket                                                            *)
(***************************************************************************)
TokenBucket(capacity, period, t) ==
    [ capacity    |-> capacity * Scale,
      refill_rate |-> (capacity * Scale) \div period,
      tokens      |-> capacity * Scale,
      last_refill |-> t ]

NewBuckets(q, t) == [ i \in Buckets |-> TokenBucket(q[i], PeriodTicks(i), t) ]

RefillKeepsClock(b, t) ==
    [ b EXCEPT !.tokens = Min(b.capacity, b.tokens + (t - b.last_refill) * b.refill_rate) ]

Refill(b, t) ==
    [ b EXCEPT !.tokens = Min(b.capacity, b.tokens + (t - b.last_refill) * b.refill_rate),
               !.last_refill = t ]

Consume(b, n, t) ==
    LET r == Refill(b, t)
    IN  IF r.tokens >= n * Scale
        THEN [ ok |-> TRUE, bucket |-> [ r EXCEPT !.tokens = r.tokens - n * Scale ] ]
        ELSE [ ok |-> FALSE, bucket |-> r ]

(***************************************************************************)
(* wait_for_request from bucket i on: wait_for_tokens on each bucket in   *)
(* turn.  The bucket at i is the object of generation g (the one the      *)
(* caller already polls, or the current one); the later ones are looked   *)
(* up in the dictionaries when they are reached.  The run ends at the     *)
(* first consume that fails (the caller sleeps) or after bucket 6.        *)
(***************************************************************************)
RECURSIVE WaitFrom(_, _, _, _)
WaitFrom(bs, i, g, w) ==
    IF i > 6
    THEN [ bs |-> bs, idx |-> 7, ref |-> g, deb |-> {} ]
    ELSE LET r == Consume(bs[g][i], Need(i, w), now)
             bs1 == [ bs EXCEPT ![g][i] = r.bucket ]
         IN  IF r.ok
             THEN LET rest == WaitFrom(bs1, i + 1, gen, w)
                  IN  [ rest EXCEPT !.deb = @ \cup {i} ]
             ELSE [ bs |-> bs1, idx |-> i, ref |-> g, deb |-> {} ]

\* check_request: consume on all six current buckets, whatever each answers
RECURSIVE ConsumeAll(_, _, _)
ConsumeAll(bs, i, w) ==
    IF i > 6
    THEN [ bs |-> bs, oks |-> {} ]
    ELSE LET r == Consume(bs[gen][i], Need(i, w), now)
             rest == ConsumeAll([ bs EXCEPT ![gen][i] = r.bucket ], i + 1, w)
         IN  [ rest EXCEPT !.oks = @ \cup (IF r.ok THEN {i} ELSE {}) ]

Callers == DOMAIN pc
Done == { c \in Callers : pc[c] = "done" }
ChecksMade == rate_limited_requests + total_requests - Cardinality(Done)

Returned(c, r, w) ==
    /\ pc' = [ pc EXCEPT ![c] = IF r.idx > 6 THEN "done" ELSE "wait" ]
    /\ idx' = [ idx EXCEPT ![c] = r.idx ]
    /\ ref' = [ ref EXCEPT ![c] = r.ref ]
    /\ wake' = [ wake EXCEPT ![c] = IF r.idx > 6 THEN 0 ELSE now + 1 ]
    /\ buckets' = r.bs
    /\ debited' = [ debited EXCEPT ![c] = @ \cup r.deb ]
    /\ IF r.idx > 6
       THEN /\ total_requests' = total_requests + 1
            /\ total_weight' = total_weight + w
            /\ retOrder' = Append(retOrder, c)
            /\ admittedNow' = admittedNow + 1
       ELSE UNCHANGED << total_requests, total_weight, retOrder, admittedNow >>

\* a caller enters wait_for_request(w) and runs to its first sleep or to the end
WaitForRequest(c, w) ==
    /\ pc[c] = "idle"
    /\ LET r == WaitFrom(buckets, 1, gen, w) IN Returned(c, r, w)
    /\ weight' = [ weight EXCEPT ![c] = w ]
    /\ callOrder' = Append(callOrder, c)
    /\ UNCHANGED << now, rate_limits, gen, rate_limited_requests, lastCheck, staleDebit >>

\* a sleeping caller's sleep(0.01) ends: it polls the bucket object it holds
Wake(c) ==
    /\ pc[c] = "wait"
    /\ now >= wake[c]
    /\ LET r == WaitFrom(buckets, idx[c], ref[c], weight[c])
       IN  /\ Returned(c, r, weight[c])
           /\ staleDebit' = IF ref[c] < gen /\ r.idx > idx[c]
                            THEN staleDebit \cup {c} ELSE staleDebit
    /\ UNCHANGED << now, rate_limits, gen, rate_limited_requests, weight,
                    callOrder, lastCheck >>

CheckRequest(w) ==
    /\ ChecksMade < MaxChecks
    /\ LET r == ConsumeAll(buckets, 1, w)
       IN  /\ buckets' = r.bs
           /\ lastCheck' = [ called |-> TRUE, res |-> (r.oks = Buckets), deb |-> r.oks, w |-> w ]
           /\ IF r.oks = Buckets
              THEN /\ total_requests' = total_requests + 1
                   /\ total_weight' = total_weight + w
                   /\ admittedNow' = admittedNow + 1
                   /\ UNCHANGED rate_limited_requests
              ELSE /\ rate_limited_requests' = rate_limited_requests + 1
                   /\ UNCHANGED << total_requests, total_weight, admittedNow >>
    /\ UNCHANGED << now, rate_limits, gen, pc, idx, ref, wake, weight,
                    debited, callOrder, retOrder, staleDebit >>

UpdateRateLimits(q) ==
    /\ gen < MaxUpdates
    /\ rate_limits' = q
    /\ gen' = gen + 1
    /\ buckets' = [ g \in 0 .. gen + 1 |->
                      IF g <= gen THEN buckets[g] ELSE NewBuckets(q, now) ]
    /\ UNCHANGED << now, pc, idx, ref, wake, weight, total_requests, total_weight,
                    rate_limited_requests, debited, callOrder, retOrder,
                    lastCheck, staleDebit, admittedNow >>

\* time passes: d ticks, up to the horizon
Tick(d, horizon) ==
    /\ now + d <= horizon
    /\ now' = now + d
    /\ admittedNow' = 0
    /\ UNCHANGED << rate_limits, gen, buckets, pc, idx, ref, wake, weight,
                    total_requests, total_weight, rate_limited_requests,
                    debited, callOrder, retOrder, lastCheck, staleDebit >>

InitLimiter(q, callers) ==
    /\ now = 0
    /\ rate_limits = q
    /\ gen = 0
    /\ buckets = [ g \in {0} |-> NewBuckets(q, 0) ]
    /\ pc = [ c \in callers |-> "idle" ]
    /\ idx = [ c \in callers |-> 1 ]
    /\ ref = [ c \in callers |-> 0 ]
    /\ wake = [ c \in callers |-> 0 ]
    /\ weight = [ c \in callers |-> 1 ]
    /\ total_requests = 0
    /\ total_weight = 0
    /\ rate_limited_requests = 0
    /\ debited = [ c \in callers |-> {} ]
    /\ callOrder = << >>
    /\ retOrder = << >>
    /\ lastCheck = [ called |-> FALSE, res |-> FALSE, deb |-> {}, w |-> 0 ]
    /\ staleDebit = {}
    /\ admittedNow = 0

(***************************************************************************)
(* OrderManager (bot/execution.py) and the exchange behind the REST       *)
(* client.  A REST round trip is three steps: the coroutine sends the     *)
(* request and suspends, the exchange serves it (the response is the      *)
(* order as it is on the exchange at that moment), and the coroutine      *)
(* resumes with the response.  Several round trips can be in flight, and  *)
(* they complete in any order.  Quantities are whole lots, and every      *)
(* trade of an order is at the order's price.                             *)
(***************************************************************************)
Orders == 1 .. MaxOrders
Slots == 1 .. MaxInFlight
Quantities == {1, 2}
Prices == {100}

Open == {"NEW", "PARTIALLY_FILLED"}
Terminal == {"FILLED", "CANCELED", "REJECTED", "EXPIRED"}

NoOrder == [ status |-> "NONE", executed_qty |-> 0, cummulative_quote_qty |-> 0,
             avg_price |-> 0, quantity |-> 0, price |-> 0 ]
FreeSlot == [ op |-> "free", id |-> 0, old |-> NoOrder, resp |-> NoOrder,
              phase |-> "free", pre |-> "NONE" ]

VARIABLES
    exch,                   \* the exchange's orders: status, executed, quantity, price
    next_id,                \* the next client order id (ids are unique)
    active_orders,          \* OrderManager.active_orders: id -> Order
    order_history,          \* OrderManager.order_history
    fills,                  \* OrderManager.fills, each also passed to on_fill
    order_updates,          \* the orders passed to on_order_update
    orders_placed,
    orders_filled,
    orders_canceled,
    total_volume,
    calls,                  \* the REST round trips in flight
    rest_calls,             \* REST requests sent so far
    to_cancel,              \* cancel_all_orders: the cancel tasks gathered, not yet started
    cancelResult            \* observer: the last cancel_order call that returned

omVars == << exch, next_id, active_orders, order_history, fills, order_updates,
             orders_placed, orders_filled, orders_canceled, total_volume,
             calls, rest_calls, to_cancel, cancelResult >>

StatusOf(executed, quantity) ==
    IF executed = 0 THEN "NEW"
    ELSE IF executed < quantity THEN "PARTIALLY_FILLED" ELSE "FILLED"

\* the Order a REST response carries: the exchange's order o as it is now
Snapshot(o) ==
    [ status |-> exch[o].status,
      executed_qty |-> exch[o].executed,
      cummulative_quote_qty |-> exch[o].executed * exch[o].price,
      avg_price |-> IF exch[o].executed > 0 THEN exch[o].price ELSE 0,
      quantity |-> exch[o].quantity,
      price |-> exch[o].price ]

Failed == [ NoOrder EXCEPT !.status = "ERROR" ]

FreeSlots == { k \in Slots : calls[k].phase = "free" }
FirstFree == CHOOSE k \in FreeSlots : \A j \in FreeSlots : k <= j
InFlight(o) == \E k \in Slots : calls[k].phase # "free" /\ calls[k].id = o

\* the status of the order in the OrderManager's latest record of it
RECURSIVE LastInHistory(_, _)
LastInHistory(h, o) ==
    IF h = << >> THEN "NONE"
    ELSE IF h[Len(h)].id = o THEN h[Len(h)].status
    ELSE LastInHistory(SubSeq(h, 1, Len(h) - 1), o)

LocalStatus(act, h, o) ==
    IF o \in DOMAIN act THEN act[o].status ELSE LastInHistory(h, o)

Send(op, o, old) ==
    /\ FreeSlots # {}
    /\ rest_calls < MaxRestCalls
    /\ rest_calls' = rest_calls + 1
    /\ calls' = [ calls EXCEPT ![FirstFree] =
                    [ op |-> op, id |-> o, old |-> old, resp |-> NoOrder, phase |-> "sent",
                      pre |-> LocalStatus(active_orders, order_history, o) ] ]

Release(k) == calls' = [ calls EXCEPT ![k] = FreeSlot ]

omLocal == << active_orders, order_history, fills, order_updates, orders_placed,
              orders_filled, orders_canceled, total_volume >>

(***************************************************************************)
(* submit_signal                                                          *)
(***************************************************************************)
SubmitSignal(q, p) ==
    /\ next_id <= MaxOrders
    /\ Send("place", next_id,
            [ NoOrder EXCEPT !.quantity = q, !.price = p ])
    /\ next_id' = next_id + 1
    /\ UNCHANGED << exch, omLocal, to_cancel, cancelResult >>

\* the exchange accepts the order; e of it executes at once
ExchangePlace(k, e) ==
    /\ calls[k].phase = "sent" /\ calls[k].op = "place"
    /\ e <= calls[k].old.quantity
    /\ LET o == calls[k].id
           x == [ status |-> StatusOf(e, calls[k].old.quantity), executed |-> e,
                  quantity |-> calls[k].old.quantity, price |-> calls[k].old.price ]
       IN  /\ exch' = [ exch EXCEPT ![o] = x ]
           /\ calls' = [ calls EXCEPT ![k].phase = "answered",
                           ![k].resp = [ status |-> x.status,
                                         executed_qty |-> e,
                                         cummulative_quote_qty |-> e * x.price,
                                         avg_price |-> IF e > 0 THEN x.price ELSE 0,
                                         quantity |-> x.quantity,
                                         price |-> x.price ] ]
    /\ UNCHANGED << next_id, omLocal, rest_calls, to_cancel, cancelResult >>

SubmitFinish(k) ==
    /\ calls[k].phase = "answered" /\ calls[k].op = "place"
    /\ Release(k)
    /\ IF calls[k].resp.status = "ERROR"
       THEN UNCHANGED omLocal
       ELSE LET o == calls[k].id
                order == calls[k].resp
            IN  /\ active_orders' = (o :> order) @@ active_orders
                /\ order_history' = Append(order_history, [ id |-> o, status |-> order.status ])
                /\ orders_placed' = orders_placed + 1
                /\ order_updates' = Append(order_updates, [ id |-> o, status |-> order.status ])
                /\ UNCHANGED << fills, orders_filled, orders_canceled, total_volume >>
    /\ UNCHANGED << exch, next_id, rest_calls, to_cancel, cancelResult >>

(***************************************************************************)
(* cancel_order and cancel_all_orders                                     *)
(***************************************************************************)
CancelStart(o) ==
    IF o \in DOMAIN active_orders
    THEN /\ Send("cancel", o, active_orders[o])
         /\ UNCHANGED cancelResult
    ELSE /\ cancelResult' = [ called |-> TRUE, id |-> o,
                              pre |-> LocalStatus(active_orders, order_history, o),
                              net |-> FALSE, ret |-> FALSE ]
         /\ UNCHANGED << calls, rest_calls >>

CancelOrder(o) ==
    /\ o < next_id
    /\ CancelStart(o)
    /\ UNCHANGED << exch, next_id, omLocal, to_cancel >>

\* the exchange cancels an open order and refuses to cancel any other
ExchangeCancel(k) ==
    /\ calls[k].phase = "sent" /\ calls[k].op = "cancel"
    /\ LET o == calls[k].id
       IN  IF exch[o].status \in Open
           THEN /\ exch' = [ exch EXCEPT ![o].status = "CANCELED" ]
                /\ calls' = [ calls EXCEPT ![k].phase = "answered",
                                ![k].resp = [ Snapshot(o) EXCEPT !.status = "CANCELED" ] ]
           ELSE /\ calls' = [ calls EXCEPT ![k].phase = "answered", ![k].resp = Failed ]
                /\ UNCHANGED exch
    /\ UNCHANGED << next_id, omLocal, rest_calls, to_cancel, cancelResult >>

\* cancel_order with the local bookkeeping done whatever the REST call did
CancelFinishAnyway(k) ==
    /\ calls[k].phase = "answered" /\ calls[k].op = "cancel"
    /\ Release(k)
    /\ LET o == calls[k].id
       IN  /\ cancelResult' = [ called |-> TRUE, id |-> o, pre |-> calls[k].pre,
                                net |-> TRUE, ret |-> calls[k].resp.status # "ERROR" ]
           /\ active_orders' = [ i \in DOMAIN active_orders \ {o} |-> active_orders[i] ]
           /\ order_history' = Append(order_history, [ id |-> o, status |-> "CANCELED" ])
           /\ orders_canceled' = orders_canceled + 1
           /\ order_updates' = Append(order_updates, [ id |-> o, status |-> "CANCELED" ])
           /\ UNCHANGED << fills, orders_placed, orders_filled, total_volume >>
    /\ UNCHANGED << exch, next_id, rest_calls, to_cancel >>

CancelFinish(k) ==
    /\ calls[k].phase = "answered" /\ calls[k].op = "cancel"
    /\ Release(k)
    /\ LET o == calls[k].id
           ok == calls[k].resp.status # "ERROR"
       IN  /\ cancelResult' = [ called |-> TRUE, id |-> o, pre |-> calls[k].pre,
                                net |-> TRUE, ret |-> ok ]
           /\ IF ok
              THEN /\ active_orders' = [ i \in DOMAIN active_orders \ {o} |-> active_orders[i] ]
                   /\ order_history' = Append(order_history, [ id |-> o, status |-> "CANCELED" ])
                   /\ orders_canceled' = orders_canceled + 1
                   /\ order_updates' = Append(order_updates, [ id |-> o, status |-> "CANCELED" ])
                   /\ UNCHANGED << fills, orders_placed, orders_filled, total_volume >>
              ELSE UNCHANGED omLocal
    /\ UNCHANGED << exch, next_id, rest_calls, to_cancel >>

\* cancel_all_orders(None): one cancel_order task per active order, run by gather
CancelAllOrders ==
    /\ to_cancel = {}
    /\ DOMAIN active_orders # {}
    /\ to_cancel' = DOMAIN active_orders
    /\ UNCHANGED << exch, next_id, omLocal, calls, rest_calls, cancelResult >>

CancelTask(o) ==
    /\ o \in to_cancel
    /\ to_cancel' = to_cancel \ {o}
    /\ CancelStart(o)
    /\ UNCHANGED << exch, next_id, omLocal >>

(***************************************************************************)
(* update_order_status and _process_fills                                 *)
(***************************************************************************)
UpdateOrderStatus(o) ==
    /\ o \in DOMAIN active_orders
    /\ Send("get", o, active_orders[o])
    /\ UNCHANGED << exch, next_id, omLocal, to_cancel, cancelResult >>

ExchangeGet(k) ==
    /\ calls[k].phase = "sent" /\ calls[k].op = "get"
    /\ calls' = [ calls EXCEPT ![k].phase = "answered", ![k].resp = Snapshot(calls[k].id) ]
    /\ UNCHANGED << exch, next_id, omLocal, rest_calls, to_cancel, cancelResult >>

FillQty(old_order, new_order) == new_order.executed_qty - old_order.executed_qty

FillPrice(old_order, new_order) ==
    IF new_order.avg_price # 0 THEN new_order.avg_price
    ELSE IF new_order.executed_qty > 0
         THEN new_order.cummulative_quote_qty \div new_order.executed_qty
         ELSE old_order.price

\* the fills _process_fills appends for (old_order, new_order): one or none
ProcessFills(o, old_order, new_order) ==
    IF new_order.status \in {"FILLED", "PARTIALLY_FILLED"} /\ FillQty(old_order, new_order) > 0
    THEN << [ order_id |-> o, quantity |-> FillQty(old_order, new_order),
              price |-> FillPrice(old_order, new_order) ] >>
    ELSE << >>

UpdateFinish(k) ==
    /\ calls[k].phase = "answered" /\ calls[k].op = "get"
    /\ Release(k)
    /\ IF calls[k].resp.status = "ERROR"
       THEN UNCHANGED omLocal
       ELSE LET o == calls[k].id
                updated_order == calls[k].resp
                new == ProcessFills(o, calls[k].old, updated_order)
            IN  /\ active_orders' = (o :> updated_order) @@ active_orders
                /\ fills' = fills \o new
                /\ orders_filled' = orders_filled + Len(new)
                /\ total_volume' = total_volume + (IF new = << >> THEN 0 ELSE new[1].quantity)
                /\ order_updates' = Append(order_updates, [ id |-> o, status |-> updated_order.status ])
                /\ UNCHANGED << order_history, orders_placed, orders_canceled >>
    /\ UNCHANGED << exch, next_id, rest_calls, to_cancel, cancelResult >>

(***************************************************************************)
(* The exchange and the network.                                          *)
(***************************************************************************)
\* d more lots of an open order trade
ExchFill(o, d) ==
    /\ exch[o].status \in Open
    /\ exch[o].executed + d <= exch[o].quantity
    /\ exch' = [ exch EXCEPT ![o].executed = @ + d,
                             ![o].status = StatusOf(exch[o].executed + d, exch[o].quantity) ]
    /\ UNCHANGED << next_id, omLocal, calls, rest_calls, to_cancel, cancelResult >>

\* an open order expires
ExchExpire(o) ==
    /\ exch[o].status \in Open
    /\ exch' = [ exch EXCEPT ![o].status = "EXPIRED" ]
    /\ UNCHANGED << next_id, omLocal, calls, rest_calls, to_cancel, cancelResult >>

\* the request fails (an HTTP error, a timeout): the REST client raises
RestFail(k) ==
    /\ calls[k].phase = "sent"
    /\ calls' = [ calls EXCEPT ![k].phase = "answered", ![k].resp = Failed ]
    /\ UNCHANGED << exch, next_id, omLocal, rest_calls, to_cancel, cancelResult >>

InitOM ==
    /\ exch = [ o \in Orders |-> [ status |-> "NONE", executed |-> 0, quantity |-> 0, price |-> 0 ] ]
    /\ next_id = 1
    /\ active_orders = << >>
    /\ order_history = << >>
    /\ fills = << >>
    /\ order_updates = << >>
    /\ orders_placed = 0
    /\ orders_filled = 0
    /\ orders_canceled = 0
    /\ total_volume = 0
    /\ calls = [ k \in Slots |-> FreeSlot ]
    /\ rest_calls = 0
    /\ to_cancel = {}
    /\ cancelResult = [ called |-> FALSE, id |-> 0, pre |-> "NONE", net |-> FALSE, ret |-> FALSE ]

(***************************************************************************)
(* Decimal arithmetic.  Quantities and prices are whole numbers here; the  *)
(* entry price of a position is a quotient of them, kept as a fraction in  *)
(* lowest terms [n, d] with d > 0, so that the weighted average is exact.  *)
(***************************************************************************)
Abs(x) == IF x < 0 THEN -x ELSE x

RECURSIVE GCD(_, _)
GCD(a, b) == IF b = 0 THEN a ELSE GCD(b, a % b)

Rat(n, d) ==
    LET g == GCD(Abs(n), Abs(d))
        s == IF d < 0 THEN -1 ELSE 1
    IN  [ n |-> s * (n \div g), d |-> s * (d \div g) ]

RatInt(i) == [ n |-> i, d |-> 1 ]
Zero == RatInt(0)
RatAdd(x, y) == Rat(x.n * y.d + y.n * x.d, x.d * y.d)
RatSub(x, y) == Rat(x.n * y.d - y.n * x.d, x.d * y.d)
RatMulInt(x, i) == Rat(x.n * i, x.d)
RatDivInt(x, i) == Rat(x.n, x.d * i)

(***************************************************************************)
(* AccountingManager: record_fill, _update_position, _update_daily_pnl.    *)
(***************************************************************************)
Symbols == {"BTCUSDT", "ETHUSDT"}
Sides == {"BUY", "SELL"}

\* the fills with the given symbols, quantities and prices; commission 1
FillsOf(symbols, quantities, prices) ==
    [ symbol : symbols, side : Sides, quantity : quantities, price : prices,
      commission : {1} ]

VARIABLES
    db_pool,                \* AccountingManager.db_pool is set (initialize() ran)
    trades,                 \* AccountingManager.trades
    acc_positions,          \* AccountingManager.positions: symbol -> Position
    acc_daily_pnl,          \* AccountingManager.daily_pnl, in thousandths
    total_pnl,              \* AccountingManager.total_pnl
    total_fees,             \* AccountingManager.total_fees
    trades_recorded,        \* AccountingManager.trades_recorded
    positions_updated       \* AccountingManager.positions_updated

accVars == << db_pool, trades, acc_positions, acc_daily_pnl, total_pnl, total_fees,
              trades_recorded, positions_updated >>

\* Position(...) as both managers create it for the first fill of a symbol
NewPosition(fill) ==
    [ side |-> IF fill.side = "BUY" THEN "LONG" ELSE "SHORT",
      size |-> IF fill.side = "BUY" THEN fill.quantity ELSE -fill.quantity,
      entry_price |-> RatInt(fill.price),
      mark_price |-> fill.price,
      unrealized_pnl |-> Zero,
      realized_pnl |-> Zero ]

NewSize(current_position, fill) ==
    IF fill.side = "BUY" THEN current_position.size + fill.quantity
    ELSE current_position.size - fill.quantity

NewEntryPrice(current_position, fill) ==
    IF fill.side = "BUY"
    THEN IF NewSize(current_position, fill) # 0
         THEN RatDivInt(RatAdd(RatMulInt(current_position.entry_price, current_position.size),
                               RatInt(fill.price * fill.quantity)),
                        NewSize(current_position, fill))
         ELSE current_position.entry_price
    ELSE current_position.entry_price

\* the realized P&L _update_position books for the fill
RealizedPnl(current_position, fill) ==
    IF current_position.size > 0 /\ NewSize(current_position, fill) <= 0
    THEN RatMulInt(RatSub(RatInt(fill.price), current_position.entry_price),
                   current_position.size)
    ELSE Zero

\* AccountingManager.positions after _update_position(fill)
AccUpdatePosition(positions, fill) ==
    IF fill.symbol \in DOMAIN positions
    THEN LET current_position == positions[fill.symbol]
         IN  [ positions EXCEPT ![fill.symbol] =
                 [ current_position EXCEPT
                     !.realized_pnl = RatAdd(@, RealizedPnl(current_position, fill)),
                     !.size = NewSize(current_position, fill),
                     !.entry_price = NewEntryPrice(current_position, fill) ] ]
    ELSE (fill.symbol :> NewPosition(fill)) @@ positions

\* the simplified P&L both managers add to daily_pnl, in thousandths
DailyPnlOf(fill) == fill.quantity * fill.price

AddTo(f, k, x) == IF k \in DOMAIN f THEN [ f EXCEPT ![k] = @ + x ] ELSE (k :> x) @@ f

\* record_fill; db_ok: the INSERT into trades did not raise
RecordFill(fill, db_ok) ==
    /\ trades' = Append(trades, fill)
    /\ trades_recorded' = trades_recorded + 1
    /\ IF db_pool /\ ~db_ok
       THEN UNCHANGED << acc_positions, acc_daily_pnl, total_pnl, total_fees, positions_updated >>
       ELSE /\ acc_positions' = AccUpdatePosition(acc_positions, fill)
            /\ total_pnl' = IF fill.symbol \in DOMAIN acc_positions
                            THEN RatAdd(total_pnl, RealizedPnl(acc_positions[fill.symbol], fill))
                            ELSE total_pnl
            /\ positions_updated' = positions_updated + 1
            /\ acc_daily_pnl' = AddTo(acc_daily_pnl, fill.symbol, DailyPnlOf(fill))
            /\ total_fees' = total_fees + fill.commission
    /\ UNCHANGED db_pool

InitAccounting(db) ==
    /\ db_pool = db
    /\ trades = << >>
    /\ acc_positions = << >>
    /\ acc_daily_pnl = << >>
    /\ total_pnl = Zero
    /\ total_fees = 0
    /\ trades_recorded = 0
    /\ positions_updated = 0

(***************************************************************************)
(* RiskManager.  The limits come from the configuration object given to    *)
(* the constructor, which places no constraint on their values.            *)
(* max_leverage is in tenths, a position_limits ratio in hundredths and    *)
(* daily_pnl in thousandths, so that 1.0, 0.5 and 0.001 are whole numbers. *)
(***************************************************************************)
BaseConfig ==
    [ max_position_size |-> 1, max_daily_drawdown |-> 5, max_consecutive_losses |-> 5,
      position_limits |-> << >>, max_leverage |-> 10 ]

RiskConfigs ==
    { BaseConfig,
      [ BaseConfig EXCEPT !.max_daily_drawdown = -1 ],
      [ BaseConfig EXCEPT !.max_consecutive_losses = 0 ],
      [ BaseConfig EXCEPT !.max_leverage = 5 ],
      [ BaseConfig EXCEPT !.position_limits = ("BTCUSDT" :> 50) ] }

Signals == [ symbol : {"BTCUSDT"}, side : Sides, quantity : {1, 2} ]

\* risk.py imports TradingSignal, RiskEvent, Position, Fill and OrderSide from
\* .types, not PositionSide: evaluating PositionSide raises NameError
PositionSideImported == FALSE

VARIABLES
    config,                 \* the limits RiskManager.__init__ reads
    risk_positions,         \* RiskManager.positions: symbol -> Position
    daily_pnl,              \* RiskManager.daily_pnl, in thousandths
    consecutive_losses,     \* RiskManager.consecutive_losses
    is_risk_breach,
    risk_breach_reason,
    risk_checks_performed,
    risk_events_triggered,
    signals_rejected,
    last_op,                \* the latest operation on the RiskManager (for check_signal:
                            \* its signal, result, events and the breach flag it found)
    prev_op,                \* the operation before it
    day_start               \* how many fills had been routed at the latest reset_daily_pnl

riskVars == << config, risk_positions, daily_pnl, consecutive_losses, is_risk_breach,
               risk_breach_reason, risk_checks_performed, risk_events_triggered,
               signals_rejected, last_op, prev_op, day_start >>

ledgerVars == << accVars, riskVars >>

NoSignal == [ symbol |-> "", side |-> "", quantity |-> 0 ]
Op(name) == [ op |-> name, sig |-> NoSignal, ret |-> FALSE, breach |-> FALSE, events |-> << >> ]
RiskEvent(event_type, severity) == [ event_type |-> event_type, severity |-> severity ]

RECURSIVE SumValues(_)
SumValues(f) ==
    IF DOMAIN f = {} THEN 0
    ELSE LET k == CHOOSE k \in DOMAIN f : TRUE
         IN  f[k] + SumValues([ j \in DOMAIN f \ {k} |-> f[j] ])

\* each check: whether it passes, and the event it triggers when it does not
Pass == [ ok |-> TRUE, events |-> << >> ]
Reject(event_type, severity) == [ ok |-> FALSE, events |-> << RiskEvent(event_type, severity) >> ]

CheckPositionLimits(signal) ==
    LET current_size == IF signal.symbol \in DOMAIN risk_positions
                        THEN risk_positions[signal.symbol].size ELSE 0
        new_size == IF signal.side = "BUY" THEN current_size + signal.quantity
                    ELSE current_size - signal.quantity
    IN  IF Abs(new_size) > config.max_position_size
        THEN Reject("POSITION_LIMIT_EXCEEDED", "WARNING")
        ELSE IF /\ signal.symbol \in DOMAIN config.position_limits
                /\ Abs(new_size) * 100 >
                     config.max_position_size * config.position_limits[signal.symbol]
             THEN Reject("SYMBOL_POSITION_LIMIT_EXCEEDED", "WARNING")
             ELSE Pass

CheckDailyDrawdown ==
    IF SumValues(daily_pnl) < -(config.max_daily_drawdown * 1000)
    THEN Reject("DAILY_DRAWDOWN_EXCEEDED", "CRITICAL")
    ELSE Pass

CheckConsecutiveLosses(signal) ==
    LET losses == IF signal.symbol \in DOMAIN consecutive_losses
                  THEN consecutive_losses[signal.symbol] ELSE 0
    IN  IF losses >= config.max_consecutive_losses
        THEN Reject("CONSECUTIVE_LOSSES_EXCEEDED", "WARNING")
        ELSE Pass

CheckLeverageLimits ==
    IF config.max_leverage < 10 THEN Reject("LEVERAGE_LIMIT_EXCEEDED", "WARNING") ELSE Pass

\* check_signal that runs every check whatever the earlier ones said
CheckOutcomeFallsThrough(signal) ==
    LET gate == IF is_risk_breach THEN Reject("RISK_BREACH", "CRITICAL") ELSE Pass
        all == << gate, CheckPositionLimits(signal), CheckDailyDrawdown,
                  CheckConsecutiveLosses(signal), CheckLeverageLimits >>
    IN  [ ret |-> \A i \in 1 .. 5 : all[i].ok,
          events |-> all[1].events \o all[2].events \o all[3].events
                       \o all[4].events \o all[5].events,
          breach |-> is_risk_breach \/ ~CheckDailyDrawdown.ok,
          reason |-> IF ~CheckDailyDrawdown.ok THEN "Daily drawdown exceeded"
                     ELSE risk_breach_reason ]

\* check_signal: what it returns, the events it triggers, the breach state it leaves
CheckOutcome(signal) ==
    LET keep(r) == [ ret |-> r.ok, events |-> r.events,
                     breach |-> is_risk_breach, reason |-> risk_breach_reason ]
    IN  IF is_risk_breach THEN keep(Reject("RISK_BREACH", "CRITICAL"))
        ELSE IF ~CheckPositionLimits(signal).ok THEN keep(CheckPositionLimits(signal))
        ELSE IF ~CheckDailyDrawdown.ok
             THEN [ ret |-> FALSE, events |-> CheckDailyDrawdown.events,
                    breach |-> TRUE, reason |-> "Daily drawdown exceeded" ]
        ELSE IF ~CheckConsecutiveLosses(signal).ok THEN keep(CheckConsecutiveLosses(signal))
        ELSE keep(CheckLeverageLimits)

CheckSignal(signal) ==
    /\ risk_checks_performed < MaxSignals
    /\ LET out == CheckOutcome(signal)
       IN  /\ risk_checks_performed' = risk_checks_performed + 1
           /\ risk_events_triggered' = risk_events_triggered + Len(out.events)
           /\ signals_rejected' = signals_rejected + (IF out.ret THEN 0 ELSE 1)
           /\ is_risk_breach' = out.breach
           /\ risk_breach_reason' = out.reason
           /\ last_op' = [ op |-> "check_signal", sig |-> signal, ret |-> out.ret,
                           breach |-> is_risk_breach, events |-> out.events ]
           /\ prev_op' = last_op
    /\ UNCHANGED << config, risk_positions, daily_pnl, consecutive_losses, day_start, accVars >>

CalculateUnrealizedPnl(position) ==
    IF position.size = 0 THEN Zero
    ELSE IF ~PositionSideImported THEN Zero
    ELSE IF position.side = "LONG"
         THEN RatMulInt(RatSub(RatInt(position.mark_price), position.entry_price), position.size)
         ELSE RatMulInt(RatSub(position.entry_price, RatInt(position.mark_price)),
                        Abs(position.size))

\* RiskManager state after update_position(fill)
UpdatePosition(fill) ==
    LET booked(positions) ==
            [ positions |-> positions,
              daily_pnl |-> AddTo(daily_pnl, fill.symbol, DailyPnlOf(fill)),
              consecutive_losses |-> (fill.symbol :> 0) @@ consecutive_losses ]
    IN  IF fill.symbol \in DOMAIN risk_positions
        THEN LET current_position == risk_positions[fill.symbol]
                 moved == [ current_position EXCEPT
                              !.size = NewSize(current_position, fill),
                              !.entry_price = NewEntryPrice(current_position, fill) ]
             IN  booked([ risk_positions EXCEPT ![fill.symbol] =
                            [ moved EXCEPT !.unrealized_pnl = CalculateUnrealizedPnl(moved) ] ])
        ELSE IF PositionSideImported
             THEN booked((fill.symbol :> NewPosition(fill)) @@ risk_positions)
             ELSE [ positions |-> risk_positions, daily_pnl |-> daily_pnl,
                    consecutive_losses |-> consecutive_losses ]

\* TradingEngine._on_fill: the fill goes to Accounting, then to the RiskManager
OnFill(fill, db_ok) ==
    /\ RecordFill(fill, db_ok)
    /\ risk_positions' = UpdatePosition(fill).positions
    /\ daily_pnl' = UpdatePosition(fill).daily_pnl
    /\ consecutive_losses' = UpdatePosition(fill).consecutive_losses
    /\ last_op' = Op("update_position")
    /\ prev_op' = last_op
    /\ UNCHANGED << config, is_risk_breach, risk_breach_reason, risk_checks_performed,
                    risk_events_triggered, signals_rejected, day_start >>

UpdateMarketData(symbol, price) ==
    /\ risk_positions' =
         IF symbol \in DOMAIN risk_positions
         THEN LET marked == [ risk_positions[symbol] EXCEPT !.mark_price = price ]
              IN  [ risk_positions EXCEPT ![symbol] =
                      [ marked EXCEPT !.unrealized_pnl = CalculateUnrealizedPnl(marked) ] ]
         ELSE risk_positions
    /\ last_op' = Op("update_market_data")
    /\ prev_op' = last_op
    /\ UNCHANGED << config, daily_pnl, consecutive_losses, is_risk_breach, risk_breach_reason,
                    risk_checks_performed, risk_events_triggered, signals_rejected,
                    day_start, accVars >>

\* reset_daily_pnl that also clears the breach
ResetDailyPnlClearsBreach ==
    /\ daily_pnl' = << >>
    /\ day_start' = Len(trades)
    /\ is_risk_breach' = FALSE
    /\ risk_breach_reason' = ""
    /\ last_op' = Op("reset_daily_pnl")
    /\ prev_op' = last_op
    /\ UNCHANGED << config, risk_positions, consecutive_losses, risk_checks_performed,
                    risk_events_triggered, signals_rejected, accVars >>

ResetDailyPnl ==
    /\ daily_pnl' = << >>
    /\ day_start' = Len(trades)
    /\ last_op' = Op("reset_daily_pnl")
    /\ prev_op' = last_op
    /\ UNCHANGED << config, risk_positions, consecutive_losses, is_risk_breach,
                    risk_breach_reason, risk_checks_performed, risk_events_triggered,
                    signals_rejected, accVars >>

ResetRiskBreach ==
    /\ is_risk_breach' = FALSE
    /\ risk_breach_reason' = ""
    /\ last_op' = [ Op("reset_risk_breach") EXCEPT !.breach = is_risk_breach ]
    /\ prev_op' = last_op
    /\ UNCHANGED << config, risk_positions, daily_pnl, consecutive_losses,
                    risk_checks_performed, risk_events_triggered, signals_rejected,
                    day_start, accVars >>

InitRisk(cfg) ==
    /\ config = cfg
    /\ risk_positions = << >>
    /\ daily_pnl = << >>
    /\ consecutive_losses = << >>
    /\ is_risk_breach = FALSE
    /\ risk_breach_reason = ""
    /\ risk_checks_performed = 0
    /\ risk_events_triggered = 0
    /\ signals_rejected = 0
    /\ last_op = Op("none")
    /\ prev_op = Op("none")
    /\ day_start = 0

InitLedger == InitAccounting(FALSE) /\ InitRisk(BaseConfig)

(***************************************************************************)
(* TradingEngine: strategies, signal routing and shutdown.  The code       *)
(* between two suspending awaits of a coroutine is one step.               *)
(***************************************************************************)
StrategyNames == {"scalper", "market_maker"}
EngineSignals == { s \in Signals : s.quantity = 1 }

\* shutdown()'s steps in the order of its try block
ShutdownSteps ==
    << "order_manager.cancel_all_orders", "disable_strategy", "data_ingester.stop",
       "monitoring_manager.stop", "order_manager.close", "accounting_manager.close" >>

\* the steps that await network or database I/O and may raise; cancel_all_orders
\* and disable_strategy catch their own exceptions, monitoring_manager.stop only logs
MayRaise == {"data_ingester.stop", "order_manager.close", "accounting_manager.close"}

\* who invokes shutdown(): the tasks of the OS signal handler, run()'s finally
\* and the command line's finally
SignalTasks == {"signal_1", "signal_2"}
Invocations == SignalTasks \cup {"run", "cli"}

VARIABLES
    main_pc,              \* where the command line's coroutine is
    engine_is_running,    \* TradingEngine.is_running
    is_initialized,
    shutdown_event,
    strategies,           \* the names of the loaded strategies
    active_strategies,
    is_enabled,           \* StrategyBase.is_enabled of each loaded strategy
    on_signal,            \* StrategyBase.on_signal of each loaded strategy
    emitted,              \* the signals the strategies generated, in order
    checked,              \* the calls of RiskManager.check_signal made by the engine
    submitted,            \* the calls of OrderManager.submit_signal made by the engine
    total_signals,
    sd_pc,                \* where each invocation of shutdown() is
    shutdown_log,         \* the steps shutdown() invoked, in order
    enabled_at_cancel     \* the strategies enabled or active when cancel_all_orders
                          \* was invoked

engVars == << main_pc, engine_is_running, is_initialized, shutdown_event, strategies,
              active_strategies, is_enabled, on_signal, emitted, checked, submitted,
              total_signals, sd_pc, shutdown_log, enabled_at_cancel >>

routeVars == << emitted, checked, submitted, total_signals >>
lifeVars == << main_pc, engine_is_running, is_initialized, shutdown_event, sd_pc, shutdown_log,
               enabled_at_cancel >>

InitEngine ==
    /\ main_pc = "created"
    /\ engine_is_running = FALSE
    /\ is_initialized = FALSE
    /\ shutdown_event = FALSE
    /\ strategies = {}
    /\ active_strategies = {}
    /\ is_enabled = << >>
    /\ on_signal = << >>
    /\ emitted = << >>
    /\ checked = << >>
    /\ submitted = << >>
    /\ total_signals = 0
    /\ sd_pc = [ i \in Invocations |-> "idle" ]
    /\ shutdown_log = << >>
    /\ enabled_at_cancel = {}

\* initialize(): the components, then _load_strategies and _setup_event_handlers.
\* A loaded strategy is initialized and made active; nothing enables it and
\* nothing assigns its on_signal.  ok = FALSE is a component whose
\* initialization raises.
Initialize(loaded, ok) ==
    /\ main_pc = "created"
    /\ IF ok
       THEN /\ strategies' = loaded
            /\ active_strategies' = loaded
            /\ is_enabled' = [ s \in loaded |-> FALSE ]
            /\ on_signal' = [ s \in loaded |-> "None" ]
            /\ is_initialized' = TRUE
            /\ main_pc' = "initialized"
       ELSE /\ main_pc' = "failed"
            /\ UNCHANGED << strategies, active_strategies, is_enabled, on_signal,
                            is_initialized >>
    /\ UNCHANGED << engine_is_running, shutdown_event, sd_pc, shutdown_log, enabled_at_cancel,
                    routeVars >>

\* run() up to its await of shutdown_event
Run ==
    /\ main_pc = "initialized"
    /\ engine_is_running' = TRUE
    /\ main_pc' = "waiting"
    /\ UNCHANGED << is_initialized, shutdown_event, strategies, active_strategies,
                    is_enabled, on_signal, sd_pc, shutdown_log, enabled_at_cancel, routeVars >>

EnableStrategy(s) ==
    /\ s \in strategies
    /\ s \notin active_strategies
    /\ is_enabled' = [ is_enabled EXCEPT ![s] = TRUE ]
    /\ active_strategies' = active_strategies \cup {s}
    /\ UNCHANGED << strategies, on_signal, lifeVars, routeVars >>

DisableStrategy(s) ==
    /\ s \in active_strategies
    /\ is_enabled' = [ is_enabled EXCEPT ![s] = FALSE ]
    /\ active_strategies' = active_strategies \ {s}
    /\ UNCHANGED << strategies, on_signal, lifeVars, routeVars >>

\* a handler of CRITICAL events that leaves the strategies as they are
DisabledNobody(names) == is_enabled

\* disable_strategy for each of the names: StrategyBase.disable clears is_enabled
Disabled(names) == [ s \in DOMAIN is_enabled |-> IF s \in names THEN FALSE ELSE is_enabled[s] ]

\* TradingEngine.submit_signal with the components in place: the risk check,
\* then the order manager if it approved.  A CRITICAL risk event reaches
\* _on_risk_event, which disables every active strategy.
Route(signal, from) ==
    LET out == CheckOutcome(signal)
        critical == \E k \in 1 .. Len(out.events) : out.events[k].severity = "CRITICAL"
    IN  /\ CheckSignal(signal)
        /\ checked' = Append(checked, [ signal |-> signal, ret |-> out.ret, from |-> from,
                                        disabled |-> IF critical THEN active_strategies
                                                     ELSE {} ])
        /\ submitted' = IF out.ret THEN Append(submitted, signal) ELSE submitted
        /\ total_signals' = IF out.ret THEN total_signals + 1 ELSE total_signals
        /\ active_strategies' = IF critical THEN {} ELSE active_strategies
        /\ is_enabled' = IF critical THEN Disabled(active_strategies) ELSE is_enabled

EngineSubmitSignal(signal) ==
    /\ is_initialized
    /\ Route(signal, "api")
    /\ UNCHANGED << strategies, on_signal, emitted, lifeVars >>

\* StrategyBase.generate_signal, reached from the handlers of an enabled
\* strategy: the signal goes to on_signal if there is one
GenerateSignal(s, signal) ==
    /\ s \in active_strategies
    /\ is_enabled[s]
    /\ Len(emitted) < MaxEmitted
    /\ emitted' = Append(emitted, [ strategy |-> s, signal |-> signal ])
    /\ IF on_signal[s] = "None"
       THEN UNCHANGED << checked, submitted, total_signals, active_strategies, is_enabled,
                         ledgerVars >>
       ELSE Route(signal, s)
    /\ UNCHANGED << strategies, on_signal, lifeVars >>

\* an invocation may begin: a signal task at any time, run()'s finally once
\* shutdown_event is set, the command line's finally once run() has returned
\* or initialize() has raised
MayInvoke(i) ==
    \/ i \in SignalTasks
    \/ i = "run" /\ main_pc = "waiting" /\ shutdown_event
    \/ i = "cli" /\ (sd_pc["run"] = "done" \/ main_pc = "failed")

\* shutdown() up to its first await: the is_running test and assignment
ShutdownStart(i) ==
    /\ sd_pc[i] = "idle"
    /\ MayInvoke(i)
    /\ sd_pc' = [ sd_pc EXCEPT ![i] = IF engine_is_running THEN ShutdownSteps[1] ELSE "done" ]
    /\ engine_is_running' = FALSE
    /\ UNCHANGED << main_pc, is_initialized, shutdown_event, shutdown_log, enabled_at_cancel,
                    strategies, active_strategies, is_enabled, on_signal, routeVars >>

StepAfter(step) ==
    LET k == CHOOSE k \in 1 .. Len(ShutdownSteps) : ShutdownSteps[k] = step
    IN  IF k = Len(ShutdownSteps) THEN "finally" ELSE ShutdownSteps[k + 1]

\* one step of shutdown()'s try block; ok = FALSE is the step raising, which
\* the except clause logs before the finally clause runs
ShutdownStep(i, ok) ==
    LET step == sd_pc[i]
    IN  /\ step \in { ShutdownSteps[k] : k \in 1 .. Len(ShutdownSteps) }
        /\ ok \/ step \in MayRaise
        /\ shutdown_log' = Append(shutdown_log, step)
        /\ enabled_at_cancel' =
              IF step = "order_manager.cancel_all_orders"
              THEN active_strategies \cup { s \in strategies : is_enabled[s] }
              ELSE enabled_at_cancel
        /\ IF step = "disable_strategy"
           THEN /\ active_strategies' = {}
                /\ is_enabled' = Disabled(active_strategies)
           ELSE UNCHANGED << active_strategies, is_enabled >>
        /\ sd_pc' = [ sd_pc EXCEPT ![i] = IF ok THEN StepAfter(step) ELSE "finally" ]
        /\ UNCHANGED << main_pc, engine_is_running, is_initialized, shutdown_event,
                        strategies, on_signal, routeVars >>

ShutdownFinally(i) ==
    /\ sd_pc[i] = "finally"
    /\ shutdown_event' = TRUE
    /\ sd_pc' = [ sd_pc EXCEPT ![i] = "done" ]
    /\ UNCHANGED << main_pc, engine_is_running, is_initialized, shutdown_log,
                    enabled_at_cancel, strategies, active_strategies, is_enabled, on_signal,
                    routeVars >>

(***************************************************************************)
(* BinanceWebSocketClient and MarketDataIngester.start.  A connection is   *)
(* numbered by the count of successful connects, and the server may close  *)
(* it or send a data frame on it at any time.  The message and error       *)
(* counters of get_stats are left out.                                     *)
(***************************************************************************)
max_reconnect_attempts == 10

ConfiguredSymbols == {"btcusdt"}
StreamKinds == << "@ticker", "@depth@100ms", "@kline_1m", "@aggTrade" >>

\* _subscribe_to_streams: the four streams of every configured symbol
IngestStreams == { << s, StreamKinds[k] >> : s \in ConfiguredSymbols, k \in 1 .. Len(StreamKinds) }

VARIABLES
    ws_pc,                \* where BinanceWebSocketClient.start() is
    ws_is_running,        \* BinanceWebSocketClient.is_running
    is_connected,
    reconnect_attempts,
    connection,           \* the number of the current websocket, 0 before the first
    listens,              \* how many times start() connected and began to listen
    subscribed_streams,   \* the streams the client lists as subscribed
    subscribe_sent,       \* the connections a SUBSCRIBE message was sent on
    delivered,            \* the data frames handed to the handlers: when each arrived,
                          \* its connection, whether a SUBSCRIBE had been sent on it
                          \* and whether start() had connected before
    on_error_calls,       \* the severities on_error was invoked with
    ingest_pc,            \* where MarketDataIngester.start() is
    websocket,            \* the number of the socket self.websocket holds, 0 for None
    closing,              \* the socket stop() called close() on, 0 if none
    stop_returned         \* stop() has returned

wsVars == << ws_pc, ws_is_running, is_connected, reconnect_attempts,
             connection, listens, subscribed_streams, subscribe_sent, delivered, on_error_calls,
             ingest_pc, websocket, closing, stop_returned >>

stopVars == << websocket, closing, stop_returned >>

InitStream ==
    /\ ws_pc = "idle"
    /\ ws_is_running = FALSE
    /\ is_connected = FALSE
    /\ reconnect_attempts = 0
    /\ connection = 0
    /\ listens = 0
    /\ subscribed_streams = {}
    /\ subscribe_sent = {}
    /\ delivered = << >>
    /\ on_error_calls = << >>
    /\ ingest_pc = "idle"
    /\ websocket = 0
    /\ closing = 0
    /\ stop_returned = FALSE

\* connect(): a successful connection resets reconnect_attempts
Connected ==
    /\ is_connected' = TRUE
    /\ reconnect_attempts' = 0
    /\ connection' = connection + 1
    /\ websocket' = connection + 1

\* the end of one pass of start()'s loop: another attempt after a sleep, or
\* the break once max_reconnect_attempts attempts were counted
AfterPass(attempts) ==
    IF ws_is_running /\ attempts < max_reconnect_attempts
    THEN /\ reconnect_attempts' = attempts + 1
         /\ ws_pc' = "sleeping"
    ELSE /\ reconnect_attempts' = attempts
         /\ ws_pc' = IF attempts >= max_reconnect_attempts THEN "gave_up" ELSE "returned"

\* connect() called by the client's user, outside start()
Connect(ok) ==
    /\ ws_pc = "idle"
    /\ connection < MaxConnections
    /\ IF ok THEN Connected
       ELSE UNCHANGED << is_connected, reconnect_attempts, connection, websocket >>
    /\ UNCHANGED << ws_pc, ws_is_running, subscribed_streams, subscribe_sent, delivered,
                    on_error_calls, ingest_pc, listens, closing, stop_returned >>

\* subscribe_to_streams: raises unless connected, else sends one SUBSCRIBE
SubscribeToStreams(streams) ==
    /\ is_connected
    /\ connection \notin subscribe_sent
    /\ subscribe_sent' = subscribe_sent \cup {connection}
    /\ subscribed_streams' = subscribed_streams \cup streams
    /\ UNCHANGED << ws_pc, ws_is_running, is_connected, reconnect_attempts,
                    connection, delivered, on_error_calls, ingest_pc, listens, stopVars >>

\* start() up to its first await
Start ==
    /\ ws_pc = "idle"
    /\ ws_is_running' = TRUE
    /\ ws_pc' = "connecting"
    /\ UNCHANGED << is_connected, reconnect_attempts, connection,
                    subscribed_streams, subscribe_sent, delivered, on_error_calls, ingest_pc,
                    listens, stopVars >>

\* MarketDataIngester.start(): _subscribe_to_streams, then ws_client.start().
\* With the client not connected subscribe_to_streams raises and start()
\* re-raises before ws_client.start() is reached.
IngesterStart ==
    /\ ingest_pc = "idle"
    /\ ws_pc = "idle"
    /\ IF is_connected
       THEN /\ subscribe_sent' = subscribe_sent \cup {connection}
            /\ subscribed_streams' = subscribed_streams \cup IngestStreams
            /\ ws_is_running' = TRUE
            /\ ws_pc' = "connecting"
            /\ ingest_pc' = "started"
       ELSE /\ ingest_pc' = "raised"
            /\ UNCHANGED << subscribe_sent, subscribed_streams, ws_is_running, ws_pc >>
    /\ UNCHANGED << is_connected, reconnect_attempts, connection,
                    delivered, on_error_calls, listens, stopVars >>

\* start()'s await of connect(): on success _listen begins, a failure ends
\* the pass
LoopConnect(ok) ==
    /\ ws_pc = "connecting"
    /\ IF ok
       THEN /\ connection < MaxConnections
            /\ Connected
            /\ listens' = listens + 1
            /\ ws_pc' = "listening"
       ELSE /\ AfterPass(reconnect_attempts)
            /\ UNCHANGED << is_connected, connection, listens, websocket >>
    /\ UNCHANGED << ws_is_running, subscribed_streams, subscribe_sent, delivered,
                    on_error_calls, ingest_pc, closing, stop_returned >>

\* the sleep of reconnect_interval seconds is over
LoopWake ==
    /\ ws_pc = "sleeping"
    /\ ws_pc' = IF ws_is_running THEN "connecting" ELSE "returned"
    /\ UNCHANGED << ws_is_running, is_connected, reconnect_attempts,
                    connection, subscribed_streams, subscribe_sent, delivered,
                    on_error_calls, ingest_pc, listens, stopVars >>

\* the socket _listen iterates is still open: stop() has not closed it
SocketOpen == ~(stop_returned /\ closing = connection)

\* _listen hands a data frame of the current connection to the handlers
Frame ==
    /\ ws_pc = "listening"
    /\ SocketOpen
    /\ Len(delivered) < MaxFrames
    /\ delivered' = Append(delivered, [ connection |-> connection,
                                        subscribed |-> connection \in subscribe_sent,
                                        reconnected |-> listens > 1,
                                        after_stop |-> stop_returned ])
    /\ UNCHANGED << ws_pc, ws_is_running, is_connected, reconnect_attempts,
                    connection, subscribed_streams, subscribe_sent,
                    on_error_calls, ingest_pc, listens, stopVars >>

\* _handle_message receives a message with an 'error' key and passes the
\* error to on_error
ErrorFrame ==
    /\ ws_pc = "listening"
    /\ SocketOpen
    /\ Len(on_error_calls) < MaxFrames
    /\ on_error_calls' = Append(on_error_calls, "server error")
    /\ UNCHANGED << ws_pc, ws_is_running, is_connected, reconnect_attempts,
                    connection, subscribed_streams, subscribe_sent,
                    delivered, ingest_pc, listens, stopVars >>

\* _listen ends: ConnectionClosed, another WebSocketException, or the
\* iteration over the websocket ending normally
ListenEnds(how) ==
    /\ ws_pc = "listening"
    /\ is_connected' = IF how = "ConnectionClosed" THEN FALSE ELSE is_connected
    /\ AfterPass(reconnect_attempts)
    /\ UNCHANGED << ws_is_running, connection, subscribed_streams, subscribe_sent, delivered,
                    on_error_calls, ingest_pc, listens, stopVars >>

\* stop() up to its first await: is_running is cleared; disconnect() awaits
\* websocket.close() if there is a websocket, else it clears is_connected and
\* stop() returns at once
Stop ==
    /\ ws_is_running
    /\ ws_is_running' = FALSE
    /\ IF websocket = 0
       THEN /\ is_connected' = FALSE
            /\ stop_returned' = TRUE
            /\ UNCHANGED closing
       ELSE /\ closing' = websocket
            /\ UNCHANGED << is_connected, stop_returned >>
    /\ UNCHANGED << ws_pc, reconnect_attempts, connection, subscribed_streams, subscribe_sent,
                    delivered, on_error_calls, ingest_pc, listens, websocket >>

\* websocket.close() returned: disconnect() sets self.websocket to None,
\* whatever it holds by now, and clears is_connected; stop() returns
StopClosed ==
    /\ closing # 0
    /\ ~stop_returned
    /\ websocket' = 0
    /\ is_connected' = FALSE
    /\ stop_returned' = TRUE
    /\ UNCHANGED << ws_pc, ws_is_running, reconnect_attempts, connection, subscribed_streams,
                    subscribe_sent, delivered, on_error_calls, ingest_pc, listens, closing >>

(***************************************************************************)
(* MarketDataIngester._on_orderbook_update, which the stream client calls  *)
(* with the OrderBook of every depth message, one message at a time.       *)
(***************************************************************************)
UpdateIds == {101, 102, 103, 104}

VARIABLES
    orderbooks,           \* symbol -> last_update_id of the stored OrderBook
    applied,              \* the updates stored, in order: symbol and last_update_id
    orderbook_updates     \* the counter of that name

depthVars == << orderbooks, applied, orderbook_updates >>

InitDepth ==
    /\ orderbooks = << >>
    /\ applied = << >>
    /\ orderbook_updates = 0

\* the OrderBook replaces the stored one whatever its last_update_id;
\* _store_orderbook catches its own exceptions
OnOrderbookUpdate(symbol, id) ==
    /\ Len(applied) < MaxDepthUpdates
    /\ orderbooks' = (symbol :> id) @@ orderbooks
    /\ applied' = Append(applied, [ symbol |-> symbol, last_update_id |-> id ])
    /\ orderbook_updates' = orderbook_updates + 1

(***************************************************************************)
(* BinanceRESTClient._make_request.  A call sends its request after the    *)
(* rate limiter admitted it and, on HTTP 429, sleeps and calls itself.     *)
(***************************************************************************)
Requests == {1, 2}
Statuses == {200, 429, 500}
RetryAfterHeaders == {"absent", "1", "2", "Wed, 21 Oct 2026 07:28:00 GMT"}

\* int(response.headers.get('Retry-After', 1)); 0 stands for int() raising
\* ValueError on a header that is not a number
RetryAfter(header) ==
    CASE header = "absent" -> 1
      [] header = "1" -> 1
      [] header = "2" -> 2
      [] OTHER -> 0

VARIABLES
    rq_pc,                \* where each _make_request call is
    sends,                \* how many times each call's request was sent
    limiter_waits,        \* how many times each call awaited wait_for_request
    sleeps,               \* the durations each call slept, in order
    retry_after,          \* the duration of the sleep in progress
    signed,               \* each call's signed argument
    params,               \* the keys of each call's params dict
    signed_over           \* the key sets _generate_signature was given, in order

restVars == << rq_pc, sends, limiter_waits, sleeps, retry_after, signed, params, signed_over >>

\* the parameters a caller passes (cancel_order, get_order: the symbol)
CallParams == {"symbol"}

InitRest ==
    /\ rq_pc = [ r \in Requests |-> "idle" ]
    /\ sends = [ r \in Requests |-> 0 ]
    /\ limiter_waits = [ r \in Requests |-> 0 ]
    /\ sleeps = [ r \in Requests |-> << >> ]
    /\ retry_after = [ r \in Requests |-> 0 ]
    /\ signed = [ r \in Requests |-> FALSE ]
    /\ params = [ r \in Requests |-> {} ]
    /\ signed_over = [ r \in Requests |-> << >> ]

\* _make_request up to its await of wait_for_request
MakeRequest(r, is_signed) ==
    /\ rq_pc[r] = "idle"
    /\ rq_pc' = [ rq_pc EXCEPT ![r] = "limiter" ]
    /\ limiter_waits' = [ limiter_waits EXCEPT ![r] = @ + 1 ]
    /\ signed' = [ signed EXCEPT ![r] = is_signed ]
    /\ params' = [ params EXCEPT ![r] = CallParams ]
    /\ UNCHANGED << sends, sleeps, retry_after, signed_over >>

\* params['timestamp'] = ...: the key is added, or its value replaced
Stamped(keys) == keys \cup {"timestamp"}

\* the limiter admitted the call: a signed call stamps its params dict and
\* signs all of it, the signature is stored in the dict, the request is sent
SendRequest(r) ==
    /\ rq_pc[r] = "limiter"
    /\ rq_pc' = [ rq_pc EXCEPT ![r] = "sent" ]
    /\ sends' = [ sends EXCEPT ![r] = @ + 1 ]
    /\ IF signed[r]
       THEN /\ signed_over' = [ signed_over EXCEPT ![r] = Append(@, Stamped(params[r])) ]
            /\ params' = [ params EXCEPT ![r] = Stamped(@) \cup {"signature"} ]
       ELSE UNCHANGED << signed_over, params >>
    /\ UNCHANGED << limiter_waits, sleeps, retry_after, signed >>

\* the response arrives: 429 starts the sleep, another status of 400 or more
\* raises, anything else returns the body
Response(r, status, header) ==
    /\ rq_pc[r] = "sent"
    /\ IF status = 429
       THEN IF RetryAfter(header) = 0
            THEN /\ rq_pc' = [ rq_pc EXCEPT ![r] = "raised" ]
                 /\ UNCHANGED retry_after
            ELSE /\ rq_pc' = [ rq_pc EXCEPT ![r] = "sleeping" ]
                 /\ retry_after' = [ retry_after EXCEPT ![r] = RetryAfter(header) ]
       ELSE /\ rq_pc' = [ rq_pc EXCEPT ![r] = IF status >= 400 THEN "raised" ELSE "returned" ]
            /\ UNCHANGED retry_after
    /\ UNCHANGED << sends, limiter_waits, sleeps, signed, params, signed_over >>

\* the sleep is over: _make_request calls itself with the same arguments,
\* the params dict of the first call among them
Retry(r) ==
    /\ rq_pc[r] = "sleeping"
    /\ sends[r] < MaxSends
    /\ sleeps' = [ sleeps EXCEPT ![r] = Append(@, retry_after[r]) ]
    /\ rq_pc' = [ rq_pc EXCEPT ![r] = "limiter" ]
    /\ limiter_waits' = [ limiter_waits EXCEPT ![r] = @ + 1 ]
    /\ UNCHANGED << sends, retry_after, signed, params, signed_over >>

\* the request fails without a response (timeout, connection error)
RequestFails(r) ==
    /\ rq_pc[r] = "sent"
    /\ rq_pc' = [ rq_pc EXCEPT ![r] = "raised" ]
    /\ UNCHANGED << sends, limiter_waits, sleeps, retry_after, signed, params, signed_over >>

(***************************************************************************)
(* Backtester.  Money is in ten-thousandths, which holds every amount the  *)
(* default commission (0.001) and slippage (0.0005) produce from the       *)
(* prices below.  The strategy is a script: the signal it generates at     *)
(* each bar, a function of the market data it has seen.  The symbol is     *)
(* one, every order has quantity 1 and every bar opens a new day.          *)
(***************************************************************************)
random_seed == 42

Money(x) == x * 10000
initial_capital == Money(10000)
BarPrices == { Money(200), Money(400) }

Hold == [ type |-> "NONE", side |-> "NONE", price |-> 0 ]
BarSignals ==
    {Hold} \cup [ type : {"MARKET"}, side : Sides, price : {0} ]
           \cup [ type : {"LIMIT"}, side : Sides, price : BarPrices ]

\* the generator behind random.normalvariate: its state after seeding, the
\* next state, and the latency in milliseconds drawn from a state
Seeded(seed) == seed % 16
NextRandom(x) == (x * 5 + 3) % 16
Latency(x) == 40 + x

\* a / b < c / d for b, d > 0, by comparing the integer parts and then the
\* reciprocals of the fractional parts
RECURSIVE FracLess(_, _, _, _)
FracLess(a, b, c, d) ==
    IF a \div b # c \div d THEN a \div b < c \div d
    ELSE IF c % d = 0 THEN FALSE
    ELSE IF a % b = 0 THEN TRUE
    ELSE FracLess(d, c % d, b, a % b)

VARIABLES
    historical_data,      \* the close prices of the bars, in order
    script,               \* the strategy: the signal it generates at each bar
    bt_pc,                \* "none" before the constructor, then "idle" or "running"
    bar,                  \* the number of bars processed in the current run
    rng,                  \* the state of the random module
    last_latency,         \* the latency of the latest order
    current_price,        \* current_prices of the symbol
    current_capital,
    bt_position,          \* positions of the symbol
    bt_entry_price,       \* entry_prices of the symbol
    bt_trades,            \* Backtester.trades
    bt_orders,            \* Backtester.orders
    bt_daily_pnl,         \* Backtester.daily_pnl, one entry per day
    max_drawdown,         \* a fraction [n, d]
    peak_capital,
    bt_total_fees,
    total_slippage,
    results,              \* the BacktestResult of every finished run
    rng_at_start          \* the state of the random module when each run began

btVars == << historical_data, script, bt_pc, bar, rng, last_latency, current_price,
             current_capital, bt_position, bt_entry_price, bt_trades, bt_orders,
             bt_daily_pnl, max_drawdown, peak_capital, bt_total_fees, total_slippage,
             results, rng_at_start >>

\* the state _initialize_backtest assigns; it leaves the random module alone
InitializeBacktestKeepsTrades ==
    /\ current_capital' = initial_capital
    /\ bt_position' = 0
    /\ bt_entry_price' = 0
    /\ bt_orders' = << >>
    /\ bt_daily_pnl' = << >>
    /\ max_drawdown' = Zero
    /\ peak_capital' = initial_capital
    /\ bt_total_fees' = 0
    /\ total_slippage' = 0
    /\ current_price' = IF Len(historical_data) > 0 THEN historical_data[1] ELSE 0
    /\ UNCHANGED bt_trades

InitializeBacktest ==
    /\ current_capital' = initial_capital
    /\ bt_position' = 0
    /\ bt_entry_price' = 0
    /\ bt_trades' = << >>
    /\ bt_orders' = << >>
    /\ bt_daily_pnl' = << >>
    /\ max_drawdown' = Zero
    /\ peak_capital' = initial_capital
    /\ bt_total_fees' = 0
    /\ total_slippage' = 0
    /\ current_price' = IF Len(historical_data) > 0 THEN historical_data[1] ELSE 0

\* Backtester.__init__: the state of a new instance; it seeds the random module
NewBacktester ==
    /\ bt_pc \in {"none", "idle"}
    /\ Len(results) < MaxRuns
    /\ bt_pc' = "idle"
    /\ rng' = Seeded(random_seed)
    /\ current_capital' = initial_capital
    /\ bt_position' = 0
    /\ bt_entry_price' = 0
    /\ bt_trades' = << >>
    /\ bt_orders' = << >>
    /\ bt_daily_pnl' = << >>
    /\ max_drawdown' = Zero
    /\ peak_capital' = initial_capital
    /\ bt_total_fees' = 0
    /\ total_slippage' = 0
    /\ current_price' = 0
    /\ UNCHANGED << historical_data, script, bar, last_latency, results, rng_at_start >>

\* run_backtest up to the simulation loop
RunBacktest ==
    /\ bt_pc = "idle"
    /\ Len(results) < MaxRuns
    /\ InitializeBacktest
    /\ bt_pc' = "running"
    /\ bar' = 0
    /\ rng_at_start' = Append(rng_at_start, rng)
    /\ UNCHANGED << historical_data, script, rng, last_latency, results >>

Marketable(order, price) ==
    \/ order.side = "BUY" /\ order.price >= price
    \/ order.side = "SELL" /\ order.price <= price

\* _calculate_execution_price
ExecutionPrice(order, price) ==
    LET slippage == (price * 5) \div 10000
    IN  IF order.type = "MARKET"
        THEN IF order.side = "BUY" THEN price + slippage ELSE price - slippage
        ELSE IF Marketable(order, price) THEN order.price ELSE price

\* _update_performance_metrics for a portfolio value: the peak, the largest
\* drawdown and the day's entry of daily_pnl
Metrics(value) ==
    LET peak == IF value > peak_capital THEN value ELSE peak_capital
    IN  [ peak |-> peak,
          drawdown |-> IF FracLess(max_drawdown.n, max_drawdown.d, peak - value, peak)
                       THEN Rat(peak - value, peak) ELSE max_drawdown,
          pnl |-> value - initial_capital ]

\* one timestamp of _run_simulation: the bar's close becomes the current
\* price, the strategy sees it and may generate a signal, _handle_signal
\* makes the order and _execute_order fills it after the simulated latency,
\* then the metrics are updated
Bar ==
    /\ bt_pc = "running"
    /\ bar < Len(historical_data)
    /\ LET price == historical_data[bar + 1]
           signal == script[bar + 1]
           ordered == signal # Hold
           rejected == price = 0
           filled == ordered /\ ~rejected
           execution_price == ExecutionPrice(signal, price)
           notional == execution_price
           fee == notional \div 1000
           order == [ type |-> signal.type, side |-> signal.side, price |-> signal.price,
                      market |-> price,
                      status |-> IF rejected THEN "REJECTED" ELSE "FILLED" ]
           fill == [ order_id |-> Len(bt_orders) + 1, trade_id |-> Len(bt_trades) + 1,
                     side |-> signal.side, quantity |-> 1, price |-> execution_price,
                     commission |-> fee, timestamp |-> bar + 1 ]
           position == IF ~filled THEN bt_position
                       ELSE IF signal.side = "BUY" THEN bt_position + 1 ELSE bt_position - 1
           capital == IF ~filled THEN current_capital
                      ELSE IF signal.side = "BUY" THEN current_capital - (notional + fee)
                           ELSE current_capital + (notional - fee)
           value == capital + position * price
       IN  /\ bar' = bar + 1
           /\ current_price' = price
           /\ rng' = IF ordered THEN NextRandom(rng) ELSE rng
           /\ last_latency' = IF ordered THEN Latency(rng) ELSE last_latency
           /\ bt_orders' = IF ordered THEN Append(bt_orders, order) ELSE bt_orders
           /\ bt_trades' = IF filled THEN Append(bt_trades, fill) ELSE bt_trades
           /\ bt_position' = position
           /\ bt_entry_price' = IF filled /\ position # 0 THEN execution_price
                                ELSE bt_entry_price
           /\ current_capital' = capital
           /\ bt_total_fees' = IF filled THEN bt_total_fees + fee ELSE bt_total_fees
           /\ total_slippage' = IF filled THEN total_slippage + Abs(execution_price - price)
                                ELSE total_slippage
           /\ peak_capital' = Metrics(value).peak
           /\ max_drawdown' = Metrics(value).drawdown
           /\ bt_daily_pnl' = Append(bt_daily_pnl, Metrics(value).pnl)
    /\ UNCHANGED << historical_data, script, bt_pc, results, rng_at_start >>

CountSide(filled, side) == Len(SelectSeq(filled, LAMBDA f : f.side = side))

\* _calculate_results: the fields of the BacktestResult that the others are
\* computed from (the Sharpe ratio from daily_pnl, the rates and averages
\* from the counts and the return)
CalculateResults ==
    LET final_capital == current_capital + bt_position * current_price
    IN  [ initial_capital |-> initial_capital,
          final_capital |-> final_capital,
          total_return |-> final_capital - initial_capital,
          max_drawdown |-> max_drawdown,
          daily_pnl |-> bt_daily_pnl,
          total_trades |-> Len(bt_trades),
          winning_trades |-> CountSide(bt_trades, "BUY"),
          losing_trades |-> CountSide(bt_trades, "SELL"),
          trades |-> bt_trades ]

\* the simulation loop is over: run_backtest returns the result
Finish ==
    /\ bt_pc = "running"
    /\ bar = Len(historical_data)
    /\ results' = Append(results, CalculateResults)
    /\ bt_pc' = "idle"
    /\ UNCHANGED << historical_data, script, bar, rng, last_latency, current_price,
                    current_capital, bt_position, bt_entry_price, bt_trades, bt_orders,
                    bt_daily_pnl, max_drawdown, peak_capital, bt_total_fees,
                    total_slippage, rng_at_start >>

\* a Backtester not yet constructed, with the data and the strategy of the runs
InitBacktest(data, strategy) ==
    /\ historical_data = data
    /\ script = strategy
    /\ bt_pc = "none"
    /\ bar = 0
    /\ rng = 0
    /\ last_latency = 0
    /\ current_price = 0
    /\ current_capital = 0
    /\ bt_position = 0
    /\ bt_entry_price = 0
    /\ bt_trades = << >>
    /\ bt_orders = << >>
    /\ bt_daily_pnl = << >>
    /\ max_drawdown = Zero
    /\ peak_capital = 0
    /\ bt_total_fees = 0
    /\ total_slippage = 0
    /\ results = << >>
    /\ rng_at_start = << >>

coreVars == << engVars, wsVars, depthVars, restVars, btVars >>

InitCore == InitEngine /\ InitStream /\ InitDepth /\ InitRest /\ InitBacktest(<< >>, << >>)

(***************************************************************************)
(* One strategy object (bot/strategies): the scalper, the market maker or  *)
(* the pairs strategy, initialized for both symbols.  A handler runs as    *)
(* one step.  A LIMIT signal the market maker emits is taken to rest on    *)
(* the exchange as a quote until it fills or is cancelled.  The prices     *)
(* _refresh_orders computes are an input: which of the two quote prices    *)
(* came out positive (none when the computation raises).  The entry        *)
(* signals of the scalper and of the pairs strategy and the counters of    *)
(* get_stats are left out.                                                 *)
(***************************************************************************)
StrategyKinds == {"scalper", "market_maker", "pairs_arbitrage"}

\* the market maker's max_inventory and order_size, in lots
MakerConfig == [ max_inventory |-> 3, order_size |-> 1 ]

\* the pair _configure_pairs builds from the two symbols
Pair == [ asset1 |-> "BTCUSDT", asset2 |-> "ETHUSDT" ]

StrategyFills == FillsOf(Symbols, {1, 2}, {100})

VARIABLES
    st_kind,              \* which strategy class the object is
    st_is_enabled,        \* StrategyBase.is_enabled
    st_positions,         \* StrategyBase.positions: symbol -> size
    st_entry_prices,      \* StrategyBase.entry_prices
    st_orderbooks,        \* the symbols StrategyBase.orderbooks has a book for
    st_fills,             \* the fills on_fill received while enabled, in order
    st_signals,           \* the signals generate_signal was called with, in order
    mm_active_orders,     \* MarketMakerStrategy.active_orders: symbol -> order ids
    quotes,               \* the LIMIT orders emitted, each live or filled
    closes                \* the calls of _close_pair_positions: the positions they
                          \* found and the signals they emitted

stratVars == << st_kind, st_is_enabled, st_positions, st_entry_prices, st_orderbooks,
                st_fills, st_signals, mm_active_orders, quotes, closes >>

\* the constructor and initialize()
InitStrategy(kind) ==
    /\ st_kind = kind
    /\ st_is_enabled = FALSE
    /\ st_positions = [ s \in Symbols |-> 0 ]
    /\ st_entry_prices = [ s \in Symbols |-> 0 ]
    /\ st_orderbooks = {}
    /\ st_fills = << >>
    /\ st_signals = << >>
    /\ mm_active_orders = [ s \in Symbols |-> << >> ]
    /\ quotes = << >>
    /\ closes = << >>

StrategyEnable ==
    /\ ~st_is_enabled
    /\ st_is_enabled' = TRUE
    /\ UNCHANGED << st_kind, st_positions, st_entry_prices, st_orderbooks, st_fills,
                    st_signals, mm_active_orders, quotes, closes >>

StrategyDisable ==
    /\ st_is_enabled
    /\ st_is_enabled' = FALSE
    /\ UNCHANGED << st_kind, st_positions, st_entry_prices, st_orderbooks, st_fills,
                    st_signals, mm_active_orders, quotes, closes >>

\* "Update position" and "Update entry price", as on_fill and each
\* _process_fill do them
Moved(positions, fill) ==
    [ positions EXCEPT ![fill.symbol] =
        IF fill.side = "BUY" THEN @ + fill.quantity ELSE @ - fill.quantity ]

Entered(entry_prices, positions, fill) ==
    IF positions[fill.symbol] # 0
    THEN [ entry_prices EXCEPT ![fill.symbol] = fill.price ]
    ELSE entry_prices

LimitSignal(symbol, side, quantity) ==
    [ symbol |-> symbol, side |-> side, quantity |-> quantity, order_type |-> "LIMIT" ]

MarketSignal(symbol, side, quantity) ==
    [ symbol |-> symbol, side |-> side, quantity |-> quantity, order_type |-> "MARKET" ]

\* _place_bid_order and _place_ask_order: the signal, if any
PlaceBidOrder(positions, symbol) ==
    LET max_size == MakerConfig.max_inventory - positions[symbol]
    IN  IF max_size <= 0 THEN << >>
        ELSE << LimitSignal(symbol, "BUY", Min(MakerConfig.order_size, max_size)) >>

PlaceAskOrder(positions, symbol) ==
    LET max_size == MakerConfig.max_inventory + positions[symbol]
    IN  IF max_size <= 0 THEN << >>
        ELSE << LimitSignal(symbol, "SELL", Min(MakerConfig.order_size, max_size)) >>

\* _refresh_orders after _cancel_existing_orders: the signals it emits
RefreshOrders(positions, books, symbol, quoted) ==
    IF symbol \notin books THEN << >>
    ELSE (IF "bid" \in quoted THEN PlaceBidOrder(positions, symbol) ELSE << >>)
           \o (IF "ask" \in quoted THEN PlaceAskOrder(positions, symbol) ELSE << >>)

\* _cancel_existing_orders clears the local list; no cancel is sent, the
\* quotes on the exchange stay as they are
CancelExistingOrders(symbol) ==
    mm_active_orders' = [ mm_active_orders EXCEPT ![symbol] = << >> ]

\* generate_signal for each signal in turn; a LIMIT signal becomes a quote
Emit(signals) ==
    /\ Len(quotes) + Len(signals) <= MaxQuotes
    /\ st_signals' = st_signals \o signals
    /\ quotes' = quotes \o [ k \in 1 .. Len(signals) |->
                              [ symbol |-> signals[k].symbol, side |-> signals[k].side,
                                quantity |-> signals[k].quantity, status |-> "live" ] ]

\* on_orderbook_update of an enabled strategy; the market maker refreshes
\* its quotes when refresh_interval has passed (due)
StrategyOnOrderbook(symbol, due, quoted) ==
    /\ st_is_enabled
    /\ st_orderbooks' = st_orderbooks \cup {symbol}
    /\ IF st_kind = "market_maker" /\ due
       THEN /\ CancelExistingOrders(symbol)
            /\ Emit(RefreshOrders(st_positions, st_orderbooks', symbol, quoted))
       ELSE UNCHANGED << mm_active_orders, st_signals, quotes >>
    /\ UNCHANGED << st_kind, st_is_enabled, st_positions, st_entry_prices, st_fills, closes >>

\* MarketMakerStrategy.on_timer for one symbol whose refresh is due
MarketMakerTimer(symbol, quoted) ==
    /\ st_is_enabled
    /\ st_kind = "market_maker"
    /\ CancelExistingOrders(symbol)
    /\ Emit(RefreshOrders(st_positions, st_orderbooks, symbol, quoted))
    /\ UNCHANGED << st_kind, st_is_enabled, st_positions, st_entry_prices, st_orderbooks,
                    st_fills, closes >>

\* StrategyBase.on_fill updates the position and calls _process_fill, which
\* in each of the three classes updates the position again
Filled(fill) == Moved(Moved(st_positions, fill), fill)

\* on_fill of an enabled strategy.  q is the quote the fill belongs to, 0 for
\* a fill of another order.  The market maker refreshes after the fill.
StrategyOnFill(fill, q, quoted) ==
    /\ st_is_enabled
    /\ Len(st_fills) < MaxStrategyFills
    /\ \/ q = 0
       \/ /\ q \in 1 .. Len(quotes)
          /\ quotes[q].status = "live"
          /\ quotes[q].symbol = fill.symbol
          /\ quotes[q].side = fill.side
          /\ quotes[q].quantity = fill.quantity
    /\ st_fills' = Append(st_fills, fill)
    /\ st_positions' = Filled(fill)
    /\ st_entry_prices' =
          Entered(Entered(st_entry_prices, Moved(st_positions, fill), fill),
                  st_positions', fill)
    /\ LET after == IF q = 0 THEN quotes ELSE [ quotes EXCEPT ![q].status = "filled" ]
           signals == IF st_kind = "market_maker"
                      THEN RefreshOrders(st_positions', st_orderbooks, fill.symbol, quoted)
                      ELSE << >>
       IN  /\ Len(quotes) + Len(signals) <= MaxQuotes
           /\ st_signals' = st_signals \o signals
           /\ quotes' = after \o [ k \in 1 .. Len(signals) |->
                                    [ symbol |-> signals[k].symbol, side |-> signals[k].side,
                                      quantity |-> signals[k].quantity, status |-> "live" ] ]
    /\ IF st_kind = "market_maker" THEN CancelExistingOrders(fill.symbol)
       ELSE UNCHANGED mm_active_orders
    /\ UNCHANGED << st_kind, st_is_enabled, st_orderbooks, closes >>

\* _close_pair_positions: a SELL for each leg whose position is positive
ClosePairPositions(pos1, pos2) ==
    (IF pos1 > 0 THEN << MarketSignal(Pair.asset1, "SELL", pos1) >> ELSE << >>)
      \o (IF pos2 > 0 THEN << MarketSignal(Pair.asset2, "SELL", pos2) >> ELSE << >>)

\* PairsArbitrageStrategy.on_timer when rebalance_interval has passed:
\* _rebalance_pair closes the pair if both legs are open and the z-score is
\* inside half the threshold (z_inside)
PairsTimer(z_inside) ==
    LET pos1 == st_positions[Pair.asset1]
        pos2 == st_positions[Pair.asset2]
    IN  /\ st_is_enabled
        /\ st_kind = "pairs_arbitrage"
        /\ pos1 # 0 /\ pos2 # 0 /\ z_inside
        /\ Len(closes) < MaxCloses
        /\ closes' = Append(closes, [ pos1 |-> pos1, pos2 |-> pos2,
                                      signals |-> ClosePairPositions(pos1, pos2) ])
        /\ st_signals' = st_signals \o ClosePairPositions(pos1, pos2)
        /\ UNCHANGED << st_kind, st_is_enabled, st_positions, st_entry_prices, st_orderbooks,
                        st_fills, mm_active_orders, quotes >>

(***************************************************************************)
(* BinanceWebSocketClient._process_stream_data.  A stream name is the      *)
(* sequence of its characters, so that str.endswith is computed and not    *)
(* assumed.                                                                *)
(***************************************************************************)
SymbolChars == << "b", "t", "c", "u", "s", "d", "t" >>
TickerChars == << "@", "t", "i", "c", "k", "e", "r" >>
DepthChars == << "@", "d", "e", "p", "t", "h" >>
SpeedChars == << "@", "1", "0", "0", "m", "s" >>
KlineChars == << "@", "k", "l", "i", "n", "e", "_" >>
IntervalChars == << "1", "m" >>
AggTradeChars == << "@", "a", "g", "g", "T", "r", "a", "d", "e" >>

\* the characters of each stream kind _subscribe_to_streams asks for
Spelled ==
    "@ticker" :> TickerChars @@ "@depth@100ms" :> (DepthChars \o SpeedChars)
      @@ "@kline_1m" :> (KlineChars \o IntervalChars) @@ "@aggTrade" :> AggTradeChars

\* f"{symbol_lower}{kind}"
StreamName(stream) == SymbolChars \o Spelled[stream[2]]

\* the names frames arrive with: the subscribed ones, the plain depth
\* stream and a stream of another kind
FrameStreams ==
    { StreamName(stream) : stream \in IngestStreams }
      \cup { SymbolChars \o DepthChars, SymbolChars \o << "@", "t", "r", "a", "d", "e" >> }

EndsWith(s, suffix) ==
    /\ Len(s) >= Len(suffix)
    /\ SubSeq(s, Len(s) - Len(suffix) + 1, Len(s)) = suffix

\* the ingester's handler the frame reaches, "unknown" for the debug log of
\* "Unknown stream type"
ProcessStreamData(stream) ==
    IF EndsWith(stream, TickerChars) THEN "on_market_data"
    ELSE IF EndsWith(stream, DepthChars) THEN "on_orderbook_update"
    ELSE IF EndsWith(stream, KlineChars) THEN "on_kline_update"
    ELSE IF EndsWith(stream, AggTradeChars) THEN "on_market_data"
    ELSE "unknown"

VARIABLES
    dispatched            \* the frames _handle_message passed on: stream and handler

dispVars == << dispatched >>

InitDispatch == dispatched = << >>

\* _handle_message for a frame with 'stream' and 'data'
HandleMessage(stream) ==
    /\ Len(dispatched) < MaxDispatched
    /\ dispatched' = Append(dispatched, [ stream |-> stream,
                                          handler |-> ProcessStreamData(stream) ])

(***************************************************************************)
(* MarketDataIngester._update_kline_buffers and the aggregation.  A        *)
(* 1-minute bar is the number of its minute; an aggregate is the first and *)
(* the last minute it was built from.                                      *)
(***************************************************************************)
BufferSize == 1000

\* the higher timeframes and the number of 1-minute bars of each
Timeframes == "5m" :> 5 @@ "15m" :> 15 @@ "1h" :> 60

VARIABLES
    kline_buffers,        \* kline_buffers[symbol]: interval -> list of klines
    bars_received         \* how many 1-minute bars _on_kline_update was given

klineVars == << kline_buffers, bars_received >>

InitKlines ==
    /\ kline_buffers = [ i \in {"1m"} \cup DOMAIN Timeframes |-> << >> ]
    /\ bars_received = 0

\* "Keep only last 1000 klines"
Last(buffer) ==
    IF Len(buffer) > BufferSize
    THEN SubSeq(buffer, Len(buffer) - BufferSize + 1, Len(buffer))
    ELSE buffer

\* _aggregate_klines over the last n bars of the 1-minute buffer
AggregateKlines(minute_klines, n) ==
    [ open_time |-> minute_klines[Len(minute_klines) - n + 1],
      close_time |-> minute_klines[Len(minute_klines)] ]

\* _generate_higher_timeframe_klines: an aggregate of an interval whenever
\* the length of the 1-minute buffer is a multiple of the interval's bars
Generated(minute_klines, interval) ==
    LET n == Timeframes[interval]
    IN  IF Len(minute_klines) >= 5 /\ Len(minute_klines) >= n /\ Len(minute_klines) % n = 0
        THEN << AggregateKlines(minute_klines, n) >>
        ELSE << >>

\* _on_kline_update for the next 1-minute bar of the symbol
OnKlineUpdate ==
    /\ bars_received < MaxKlines
    /\ bars_received' = bars_received + 1
    /\ LET minute_klines == Last(Append(kline_buffers["1m"], bars_received + 1))
       IN  kline_buffers' =
              [ i \in DOMAIN kline_buffers |->
                  IF i = "1m" THEN minute_klines
                  ELSE Last(kline_buffers[i] \o Generated(minute_klines, i)) ]

(***************************************************************************)
(* The orders of approved signals filling.  The k-th call of               *)
(* OrderManager.submit_signal places an order; when it fills in full the   *)
(* fill reaches TradingEngine._on_fill, which hands it to Accounting and   *)
(* to RiskManager.update_position.                                         *)
(***************************************************************************)
VARIABLES
    filled_orders         \* which of the submitted signals' orders have filled

expVars == << filled_orders >>

InitExposure == filled_orders = {}

\* the fill of the whole order of the k-th submitted signal
FullFill(k) ==
    [ symbol |-> submitted[k].symbol, side |-> submitted[k].side,
      quantity |-> submitted[k].quantity, price |-> 100, commission |-> 1 ]

OrderFills(k) ==
    /\ k \in 1 .. Len(submitted)
    /\ k \notin filled_orders
    /\ filled_orders' = filled_orders \cup {k}
    /\ OnFill(FullFill(k), TRUE)

\* the net quantity of the symbol the filled orders bought
RECURSIVE NetFilled(_, _)
NetFilled(symbol, orders) ==
    IF orders = {} THEN 0
    ELSE LET k == CHOOSE k \in orders : TRUE
             signed_quantity == IF submitted[k].symbol # symbol THEN 0
                                ELSE IF submitted[k].side = "BUY" THEN submitted[k].quantity
                                ELSE -submitted[k].quantity
         IN  signed_quantity + NetFilled(symbol, orders \ {k})

extVars == << stratVars, dispVars, klineVars, expVars >>

InitExt == InitStrategy("scalper") /\ InitDispatch /\ InitKlines /\ InitExposure

sysVars == << coreVars, extVars >>

InitSys == InitCore /\ InitExt

vars == << rlVars, omVars, ledgerVars, sysVars >>

(***************************************************************************)
(* The limiter under any interleaving of its callers.                     *)
(***************************************************************************)
HalfSecond == TicksPerSecond \div 2

InitRL == InitOM /\ InitLedger /\ InitSys /\ \E q \in Quotas : InitLimiter(q, 1 .. MaxCallers)

NextRL ==
    \/ \E c \in Callers, w \in Weights : WaitForRequest(c, w) /\ UNCHANGED << omVars, ledgerVars, sysVars >>
    \/ \E c \in Callers : Wake(c) /\ UNCHANGED << omVars, ledgerVars, sysVars >>
    \/ \E w \in Weights : CheckRequest(w) /\ UNCHANGED << omVars, ledgerVars, sysVars >>
    \/ \E q \in Quotas : UpdateRateLimits(q) /\ UNCHANGED << omVars, ledgerVars, sysVars >>
    \/ Tick(HalfSecond, MaxAdvances * HalfSecond) /\ UNCHANGED << omVars, ledgerVars, sysVars >>

SpecRL == InitRL /\ [][NextRL]_vars

(***************************************************************************)
(* The burst scenario: 15 wait_for_request(1) calls issued at t = 0.      *)
(* The callers are interchangeable (same weight, same start), so the one  *)
(* of lowest index stands for whichever runs next; a failed poll of any   *)
(* other caller at the same tick would leave the bucket as this one's     *)
(* failed poll leaves it.                                                 *)
(***************************************************************************)
Lowest(S) == CHOOSE c \in S : \A d \in S : c <= d
Idle == { c \in Callers : pc[c] = "idle" }
Waiting == { c \in Callers : pc[c] = "wait" }

InitBurst == InitOM /\ InitLedger /\ InitSys /\ InitLimiter(BurstQuota, BurstCallers)

BurstCall == Idle # {} /\ WaitForRequest(Lowest(Idle), 1) /\ UNCHANGED << omVars, ledgerVars, sysVars >>
BurstWake == Idle = {} /\ Waiting # {} /\ Wake(Lowest(Waiting)) /\ UNCHANGED << omVars, ledgerVars, sysVars >>
BurstTick == Idle = {} /\ Tick(1, BurstHorizon) /\ UNCHANGED << omVars, ledgerVars, sysVars >>

NextBurst == BurstCall \/ BurstWake \/ BurstTick

SpecBurst == InitBurst /\ [][NextBurst]_vars

(***************************************************************************)
(* The OrderManager under any interleaving of its operations, the         *)
(* exchange and the network.                                              *)
(***************************************************************************)
InitOrders == InitOM /\ InitLedger /\ InitSys /\ InitLimiter(BurstQuota, {})

NextOM ==
    \/ \E q \in Quantities, p \in Prices : SubmitSignal(q, p) /\ UNCHANGED << rlVars, ledgerVars, sysVars >>
    \/ \E k \in Slots, e \in {0} \cup Quantities : ExchangePlace(k, e) /\ UNCHANGED << rlVars, ledgerVars, sysVars >>
    \/ \E k \in Slots : SubmitFinish(k) /\ UNCHANGED << rlVars, ledgerVars, sysVars >>
    \/ \E o \in Orders : CancelOrder(o) /\ UNCHANGED << rlVars, ledgerVars, sysVars >>
    \/ \E k \in Slots : ExchangeCancel(k) /\ UNCHANGED << rlVars, ledgerVars, sysVars >>
    \/ \E k \in Slots : CancelFinish(k) /\ UNCHANGED << rlVars, ledgerVars, sysVars >>
    \/ CancelAllOrders /\ UNCHANGED << rlVars, ledgerVars, sysVars >>
    \/ \E o \in Orders : CancelTask(o) /\ UNCHANGED << rlVars, ledgerVars, sysVars >>
    \/ \E o \in Orders : UpdateOrderStatus(o) /\ UNCHANGED << rlVars, ledgerVars, sysVars >>
    \/ \E k \in Slots : ExchangeGet(k) /\ UNCHANGED << rlVars, ledgerVars, sysVars >>
    \/ \E k \in Slots : UpdateFinish(k) /\ UNCHANGED << rlVars, ledgerVars, sysVars >>
    \/ \E o \in Orders, d \in Quantities : ExchFill(o, d) /\ UNCHANGED << rlVars, ledgerVars, sysVars >>
    \/ \E o \in Orders : ExchExpire(o) /\ UNCHANGED << rlVars, ledgerVars, sysVars >>
    \/ \E k \in Slots : RestFail(k) /\ UNCHANGED << rlVars, ledgerVars, sysVars >>

SpecOM == InitOrders /\ [][NextOM]_vars

(***************************************************************************)
(* The RiskManager under any sequence of its operations, with the fills    *)
(* the Engine routes to it.                                                *)
(***************************************************************************)
MarkPrices == {100, 110}

InitRiskManager ==
    /\ InitOM /\ InitLimiter(BurstQuota, {}) /\ InitSys
    /\ InitAccounting(FALSE)
    /\ \E cfg \in RiskConfigs : InitRisk(cfg)

NextRisk ==
    \/ \E s \in Signals : CheckSignal(s) /\ UNCHANGED << rlVars, omVars, sysVars >>
    \/ \E f \in FillsOf({"BTCUSDT"}, {1}, MarkPrices) :
          Len(trades) < MaxRiskFills /\ OnFill(f, TRUE) /\ UNCHANGED << rlVars, omVars, sysVars >>
    \/ \E s \in Symbols, p \in MarkPrices : UpdateMarketData(s, p) /\ UNCHANGED << rlVars, omVars, sysVars >>
    \/ ResetDailyPnl /\ UNCHANGED << rlVars, omVars, sysVars >>
    \/ ResetRiskBreach /\ UNCHANGED << rlVars, omVars, sysVars >>

SpecRisk == InitRiskManager /\ [][NextRisk]_vars

(***************************************************************************)
(* Accounting and the RiskManager under any sequence of fills, with and    *)
(* without a database.                                                     *)
(***************************************************************************)
InitFills ==
    /\ InitOM /\ InitLimiter(BurstQuota, {}) /\ InitSys
    /\ \E db \in BOOLEAN : InitAccounting(db)
    /\ InitRisk(BaseConfig)

NextFills ==
    \E f \in FillsOf(Symbols, {1, 2}, MarkPrices), db_ok \in BOOLEAN :
        Len(trades) < MaxFills /\ OnFill(f, db_ok) /\ UNCHANGED << rlVars, omVars, sysVars >>

SpecFills == InitFills /\ [][NextFills]_vars

(***************************************************************************)
(* The TradingEngine from construction to shutdown, with the strategies'   *)
(* signals and the calls of its own operations in any order.               *)
(***************************************************************************)
EngineConfigs == { BaseConfig, [ BaseConfig EXCEPT !.max_daily_drawdown = -1 ] }

InitEngineRun ==
    /\ InitOM /\ InitLimiter(BurstQuota, {})
    /\ InitAccounting(FALSE)
    /\ \E cfg \in EngineConfigs : InitRisk(cfg)
    /\ InitSys

aroundEngine == << rlVars, omVars, wsVars, depthVars, restVars, btVars, extVars >>

NextEngine ==
    \/ \E loaded \in SUBSET StrategyNames, ok \in BOOLEAN :
          Initialize(loaded, ok) /\ UNCHANGED << aroundEngine, ledgerVars >>
    \/ Run /\ UNCHANGED << aroundEngine, ledgerVars >>
    \/ \E s \in StrategyNames : EnableStrategy(s) /\ UNCHANGED << aroundEngine, ledgerVars >>
    \/ \E s \in StrategyNames : DisableStrategy(s) /\ UNCHANGED << aroundEngine, ledgerVars >>
    \/ \E s \in StrategyNames, signal \in EngineSignals :
          GenerateSignal(s, signal) /\ UNCHANGED aroundEngine
    \/ \E signal \in EngineSignals : EngineSubmitSignal(signal) /\ UNCHANGED aroundEngine
    \/ \E i \in Invocations : ShutdownStart(i) /\ UNCHANGED << aroundEngine, ledgerVars >>
    \/ \E i \in Invocations, ok \in BOOLEAN :
          ShutdownStep(i, ok) /\ UNCHANGED << aroundEngine, ledgerVars >>
    \/ \E i \in Invocations : ShutdownFinally(i) /\ UNCHANGED << aroundEngine, ledgerVars >>

SpecEngine == InitEngineRun /\ [][NextEngine]_vars

(***************************************************************************)
(* The stream client under its user's calls, MarketDataIngester.start and  *)
(* the server.  SpecStreamLive adds that the coroutines go on running:     *)
(* a started ingester, a sleep and a connection attempt come to an end.    *)
(***************************************************************************)
InitStreams == InitOM /\ InitLimiter(BurstQuota, {}) /\ InitLedger /\ InitSys

aroundStream == << rlVars, omVars, ledgerVars, engVars, depthVars, restVars, btVars, extVars >>

LoopConnects == \E ok \in BOOLEAN : LoopConnect(ok) /\ UNCHANGED aroundStream
IngesterStarts == IngesterStart /\ UNCHANGED aroundStream
LoopWakes == LoopWake /\ UNCHANGED aroundStream

NextStream ==
    \/ \E ok \in BOOLEAN : Connect(ok) /\ UNCHANGED aroundStream
    \/ \E streams \in { IngestStreams, { << "btcusdt", "@ticker" >> } } :
          SubscribeToStreams(streams) /\ UNCHANGED aroundStream
    \/ Start /\ UNCHANGED aroundStream
    \/ IngesterStarts
    \/ LoopConnects
    \/ LoopWakes
    \/ Frame /\ UNCHANGED aroundStream
    \/ ErrorFrame /\ UNCHANGED aroundStream
    \/ \E how \in {"ConnectionClosed", "WebSocketException", "end"} :
          ListenEnds(how) /\ UNCHANGED aroundStream
    \/ Stop /\ UNCHANGED aroundStream
    \/ StopClosed /\ UNCHANGED aroundStream

SpecStream == InitStreams /\ [][NextStream]_vars

SpecStreamLive ==
    SpecStream /\ WF_vars(IngesterStarts) /\ WF_vars(LoopConnects) /\ WF_vars(LoopWakes)

(***************************************************************************)
(* The depth messages of two symbols in any order.                         *)
(***************************************************************************)
NextDepth ==
    \E symbol \in Symbols, id \in UpdateIds :
        OnOrderbookUpdate(symbol, id)
        /\ UNCHANGED << rlVars, omVars, ledgerVars, engVars, wsVars, restVars, btVars, extVars >>

SpecDepth == InitStreams /\ [][NextDepth]_vars

(***************************************************************************)
(* Two _make_request calls against a server that answers as it likes.      *)
(***************************************************************************)
aroundRest == << rlVars, omVars, ledgerVars, engVars, wsVars, depthVars, btVars, extVars >>

NextRest ==
    \/ \E r \in Requests, is_signed \in BOOLEAN : MakeRequest(r, is_signed) /\ UNCHANGED aroundRest
    \/ \E r \in Requests : SendRequest(r) /\ UNCHANGED aroundRest
    \/ \E r \in Requests, status \in Statuses, header \in RetryAfterHeaders :
          Response(r, status, header) /\ UNCHANGED aroundRest
    \/ \E r \in Requests : Retry(r) /\ UNCHANGED aroundRest
    \/ \E r \in Requests : RequestFails(r) /\ UNCHANGED aroundRest

SpecRest == InitStreams /\ [][NextRest]_vars

(***************************************************************************)
(* Runs of run_backtest with one strategy and one data set, on the same    *)
(* Backtester or on a new one.                                             *)
(***************************************************************************)
DataSets == [ 1 .. MaxBars -> BarPrices ]
Scripts == [ 1 .. MaxBars -> BarSignals ]

InitBacktests ==
    /\ InitOM /\ InitLimiter(BurstQuota, {}) /\ InitLedger
    /\ InitEngine /\ InitStream /\ InitDepth /\ InitRest /\ InitExt
    /\ \E data \in DataSets, strategy \in Scripts : InitBacktest(data, strategy)

aroundBacktest == << rlVars, omVars, ledgerVars, engVars, wsVars, depthVars, restVars, extVars >>

NextBacktest ==
    \/ NewBacktester /\ UNCHANGED aroundBacktest
    \/ RunBacktest /\ UNCHANGED aroundBacktest
    \/ Bar /\ UNCHANGED aroundBacktest
    \/ Finish /\ UNCHANGED aroundBacktest

SpecBacktest == InitBacktests /\ [][NextBacktest]_vars

(***************************************************************************)
(* One strategy of each class under any sequence of its handlers.          *)
(***************************************************************************)
InitBase == InitOM /\ InitLimiter(BurstQuota, {}) /\ InitLedger /\ InitCore

InitStrategies ==
    /\ InitBase
    /\ \E kind \in StrategyKinds : InitStrategy(kind)
    /\ InitDispatch /\ InitKlines /\ InitExposure

aroundStrategy == << rlVars, omVars, ledgerVars, coreVars, dispVars, klineVars, expVars >>
QuoteSides == SUBSET {"bid", "ask"}

NextStrategy ==
    \/ StrategyEnable /\ UNCHANGED aroundStrategy
    \/ StrategyDisable /\ UNCHANGED aroundStrategy
    \/ \E symbol \in Symbols, due \in BOOLEAN, quoted \in QuoteSides :
          StrategyOnOrderbook(symbol, due, quoted) /\ UNCHANGED aroundStrategy
    \/ \E symbol \in Symbols, quoted \in QuoteSides :
          MarketMakerTimer(symbol, quoted) /\ UNCHANGED aroundStrategy
    \/ \E fill \in StrategyFills, q \in 0 .. MaxQuotes, quoted \in QuoteSides :
          StrategyOnFill(fill, q, quoted) /\ UNCHANGED aroundStrategy
    \/ \E z_inside \in BOOLEAN : PairsTimer(z_inside) /\ UNCHANGED aroundStrategy

SpecStrategy == InitStrategies /\ [][NextStrategy]_vars

(***************************************************************************)
(* The frames of the subscribed and of other streams in any order.         *)
(***************************************************************************)
NextDispatch ==
    \E stream \in FrameStreams :
        HandleMessage(stream)
        /\ UNCHANGED << rlVars, omVars, ledgerVars, coreVars, stratVars, klineVars, expVars >>

SpecDispatch == InitStreams /\ [][NextDispatch]_vars

(***************************************************************************)
(* The 1-minute bars of one symbol, one after the other.                   *)
(***************************************************************************)
NextKlines ==
    OnKlineUpdate
    /\ UNCHANGED << rlVars, omVars, ledgerVars, coreVars, stratVars, dispVars, expVars >>

SpecKlines == InitStreams /\ [][NextKlines]_vars

(***************************************************************************)
(* The engine routing signals while the orders of approved signals fill.   *)
(***************************************************************************)
aroundExposure == << rlVars, omVars, wsVars, depthVars, restVars, btVars, stratVars,
                     dispVars, klineVars >>

NextExposure ==
    \/ \E loaded \in SUBSET StrategyNames, ok \in BOOLEAN :
          Initialize(loaded, ok) /\ UNCHANGED << aroundExposure, ledgerVars, expVars >>
    \/ \E signal \in Signals :
          EngineSubmitSignal(signal) /\ UNCHANGED << aroundExposure, expVars >>
    \/ \E k \in 1 .. MaxSignals :
          OrderFills(k) /\ UNCHANGED << aroundExposure, engVars >>

SpecExposure == InitEngineRun /\ [][NextExposure]_vars

(***************************************************************************)
(* The engine's strategies under risk events, enable_strategy,             *)
(* disable_strategy and reset_risk_breach in any order.                    *)
(***************************************************************************)
NextCritical ==
    \/ \E loaded \in SUBSET StrategyNames, ok \in BOOLEAN :
          Initialize(loaded, ok) /\ UNCHANGED << aroundEngine, ledgerVars >>
    \/ \E s \in StrategyNames : EnableStrategy(s) /\ UNCHANGED << aroundEngine, ledgerVars >>
    \/ \E s \in StrategyNames : DisableStrategy(s) /\ UNCHANGED << aroundEngine, ledgerVars >>
    \/ \E signal \in EngineSignals : EngineSubmitSignal(signal) /\ UNCHANGED aroundEngine
    \/ ResetRiskBreach /\ UNCHANGED << aroundEngine, engVars >>

SpecCritical == InitEngineRun /\ [][NextCritical]_vars

(***************************************************************************)
(* Claims about the RateLimiter.                                          *)
(***************************************************************************)

\* C1: check_request is atomic across the six buckets: when it returns False
\* no bucket has been debited, when it returns True all six have been.
C1_CheckRequestAtomic ==
    lastCheck.called =>
        IF lastCheck.res THEN lastCheck.deb = Buckets ELSE lastCheck.deb = {}

\* C2: a wait_for_request call that is still blocked has debited no bucket.
C2_BlockedDebitsNothing ==
    \A c \in Callers : pc[c] = "wait" => debited[c] = {}

\* C3: wait_for_request callers are served in FIFO order: a caller that called
\* later has not returned while an earlier caller is still waiting.
C3_Fifo ==
    \A i, j \in 1 .. Len(callOrder) :
        (i < j /\ callOrder[j] \in Done) => callOrder[i] \in Done

\* C4: while the configured quota stays C, the requests admitted in an interval
\* of length W number at most C*W/P + C; here for the per-second request bucket
\* and the interval of one tick (W = 1 tick, P = TicksPerSecond ticks).
QuotaStayed == \A g \in DOMAIN buckets : buckets[g][1].capacity = buckets[0][1].capacity
C4_RateBound ==
    QuotaStayed =>
        admittedNow * PeriodTicks(1) <= rate_limits[1] * 1 + rate_limits[1] * PeriodTicks(1)

\* C5 (as stated): of 15 calls issued at t = 0 with requests_per_second = 10,
\* 10 return before 100 ms and none of the other 5 returns before 900 ms.
C5_BurstAsStated ==
    now * 10 < 9 * TicksPerSecond => Cardinality(Done) <= 10

\* C5 (amended): 10 calls return before 100 ms, and the k-th of the other 5
\* returns no earlier than k * 100 ms (one token is refilled every 100 ms):
\* by time t at most 10 + 10 * t calls have returned, and once all 15 have
\* been issued at least 10 have.
C5_BurstRefill ==
    /\ Cardinality(Done) * TicksPerSecond <= rate_limits[1] * TicksPerSecond + rate_limits[1] * now
    /\ Idle = {} => Cardinality(Done) >= rate_limits[1]

\* all 15 calls have returned by 500 ms
C5_Witness == Cardinality(Done) = 15 /\ now * 2 = TicksPerSecond

\* C6: a call that was blocked when update_rate_limits ran goes on to debit
\* the new buckets, never a replaced one.
C6_BlockedUsesNewBuckets == staleDebit = {}

(***************************************************************************)
(* Claims about the OrderManager.                                         *)
(***************************************************************************)
RECURSIVE SumFills(_, _)
SumFills(f, o) ==
    IF f = << >> THEN 0
    ELSE (IF f[1].order_id = o THEN f[1].quantity ELSE 0) + SumFills(Tail(f), o)

AllowedTransitions ==
    ({"NEW"} \X {"PARTIALLY_FILLED", "FILLED", "CANCELED", "REJECTED", "EXPIRED"})
        \cup ({"PARTIALLY_FILLED"} \X {"FILLED", "CANCELED", "EXPIRED"})

\* C7: once the local record of an order is FILLED, CANCELED, REJECTED or
\* EXPIRED its status never changes, and the status only ever moves along
\* NEW -> {PARTIALLY_FILLED, FILLED, CANCELED, REJECTED, EXPIRED} and
\* PARTIALLY_FILLED -> {FILLED, CANCELED, EXPIRED}.
C7_StatusMonotonic ==
    [][ \A o \in Orders :
          LET a == LocalStatus(active_orders, order_history, o)
              b == LocalStatus(active_orders', order_history', o)
          IN  a # b => (a = "NONE" \/ << a, b >> \in AllowedTransitions) ]_vars

\* C8: the quantities of the fills emitted for an order sum to at most the
\* order's quantity.
C8_FillsWithinQuantity ==
    \A o \in Orders : SumFills(fills, o) <= exch[o].quantity

\* C9: the fills emitted for an order sum to the order's last known executed
\* quantity (placement response executedQty = 0.4, next update 1.0: fills 0.4
\* then 0.6), once no round trip for the order is in flight.
C9_FillsMatchExecuted ==
    \A o \in DOMAIN active_orders :
        ~InFlight(o) => SumFills(fills, o) = active_orders[o].executed_qty

\* C10: cancel_order of an order whose local record is already terminal
\* returns True and makes no REST call.
C10_CancelIdempotent ==
    (cancelResult.called /\ cancelResult.pre \in Terminal) =>
        (cancelResult.ret /\ ~cancelResult.net)

\* C11: when the REST cancel fails, cancel_order returns False and leaves
\* active_orders, order_history, orders_canceled, the order's status and the
\* order-update events as they were.
C11_CancelFailureKeepsState ==
    [][ \A k \in Slots :
          ( /\ calls[k].phase = "answered" /\ calls[k].op = "cancel"
            /\ calls[k].resp.status = "ERROR"
            /\ calls'[k].phase = "free" )
          => ( /\ active_orders' = active_orders
               /\ order_history' = order_history
               /\ orders_canceled' = orders_canceled
               /\ order_updates' = order_updates
               /\ LocalStatus(active_orders', order_history', calls[k].id)
                    = LocalStatus(active_orders, order_history, calls[k].id)
               /\ cancelResult'.called /\ cancelResult'.id = calls[k].id
               /\ cancelResult'.ret = FALSE ) ]_vars

\* a cancel_order whose REST call failed has returned False, the order still active
C11_Witness ==
    /\ cancelResult.called /\ cancelResult.net /\ ~cancelResult.ret
    /\ cancelResult.id \in DOMAIN active_orders
    /\ orders_canceled = 0

(***************************************************************************)
(* Claims about the RiskManager.                                          *)
(***************************************************************************)

\* C12: while is_risk_breach is true every check_signal returns False, and
\* is_risk_breach goes from true to false only in reset_risk_breach.
C12_BreachGate ==
    /\ [](last_op.op = "check_signal" /\ last_op.breach => ~last_op.ret)
    /\ [][ (is_risk_breach /\ ~is_risk_breach') => last_op'.op = "reset_risk_breach" ]_vars

\* a check_signal has been rejected by the breach gate, the breach still set
C12_Witness ==
    /\ is_risk_breach
    /\ last_op.op = "check_signal" /\ last_op.breach /\ ~last_op.ret

\* The position math of section 4.8 of the specification, as the claims state
\* it: st.pos is the position per symbol (size, entry), st.realized the realized
\* P&L of the fills counted.
RatLess(x, y) == x.n * y.d < y.n * x.d
Sign(x) == IF x < 0 THEN -1 ELSE IF x > 0 THEN 1 ELSE 0
Signed(fill) == IF fill.side = "BUY" THEN fill.quantity ELSE -fill.quantity

ClosedFormStep(st, fill, counted) ==
    LET cur == IF fill.symbol \in DOMAIN st.pos THEN st.pos[fill.symbol]
               ELSE [ size |-> 0, entry |-> Zero ]
        delta == Signed(fill)
        p == RatInt(fill.price)
        r == Min(Abs(cur.size), Abs(delta))
        next == IF cur.size = 0 THEN [ size |-> delta, entry |-> p ]
                ELSE IF Sign(cur.size) = Sign(delta)
                THEN [ size |-> cur.size + delta,
                       entry |-> RatDivInt(RatAdd(RatMulInt(cur.entry, cur.size),
                                                  RatMulInt(p, delta)), cur.size + delta) ]
                ELSE IF Abs(delta) > Abs(cur.size)
                THEN [ size |-> cur.size + delta, entry |-> p ]
                ELSE [ size |-> cur.size + delta, entry |-> cur.entry ]
        gain == IF cur.size # 0 /\ Sign(cur.size) # Sign(delta)
                THEN RatMulInt(RatSub(p, cur.entry), r * Sign(cur.size))
                ELSE Zero
    IN  [ pos |-> (fill.symbol :> next) @@ st.pos,
          realized |-> IF counted THEN RatAdd(st.realized, gain) ELSE st.realized ]

RECURSIVE ClosedFormFrom(_, _, _, _)
ClosedFormFrom(tr, i, st, from) ==
    IF i > Len(tr) THEN st
    ELSE ClosedFormFrom(tr, i + 1, ClosedFormStep(st, tr[i], i > from), from)

\* the closed-form state after the fills tr, the realized P&L counted from fill from + 1
ClosedForm(tr, from) == ClosedFormFrom(tr, 1, [ pos |-> << >>, realized |-> Zero ], from)

\* C13: when the realized P&L of the day's fills is below -max_daily_drawdown,
\* check_signal (of a signal within the position limits) returns False, sets
\* the breach with the daily-drawdown reason and emits a CRITICAL RiskEvent.
C13_DrawdownTrips ==
    ( /\ last_op.op = "check_signal"
      /\ CheckPositionLimits(last_op.sig).ok
      /\ RatLess(ClosedForm(trades, day_start).realized, RatInt(-config.max_daily_drawdown)) )
    => ( /\ ~last_op.ret
         /\ is_risk_breach /\ risk_breach_reason = "Daily drawdown exceeded"
         /\ \E i \in DOMAIN last_op.events : last_op.events[i].severity = "CRITICAL" )

\* C14: with the day's P&L below -max_daily_drawdown and the breach set by a
\* rejected signal, reset_risk_breach followed by check_signal of a signal that
\* passes the position-limit, consecutive-loss and leverage checks returns True.
C14_ResetThenAccepted ==
    ( /\ last_op.op = "check_signal"
      /\ prev_op.op = "reset_risk_breach" /\ prev_op.breach
      /\ ~CheckDailyDrawdown.ok
      /\ CheckPositionLimits(last_op.sig).ok
      /\ CheckConsecutiveLosses(last_op.sig).ok
      /\ CheckLeverageLimits.ok )
    => last_op.ret

\* C15: check_signal twice in a row on the same signal returns the same
\* boolean, and a rejected check_signal emits at most one RiskEvent.
C15_CheckIdempotent ==
    /\ ( /\ last_op.op = "check_signal" /\ prev_op.op = "check_signal"
         /\ prev_op.sig = last_op.sig )
       => last_op.ret = prev_op.ret
    /\ (last_op.op = "check_signal" /\ ~last_op.ret) => Len(last_op.events) <= 1

\* the same signal has been checked twice in a row and rejected, with one event
C15_Witness ==
    /\ last_op.op = "check_signal" /\ prev_op.op = "check_signal"
    /\ prev_op.sig = last_op.sig
    /\ ~last_op.ret /\ Len(last_op.events) = 1

\* C16: for every symbol the RiskManager's shadow position has the size and
\* the entry price of Accounting's position.
C16_ShadowMatchesAccounting ==
    \A s \in DOMAIN acc_positions :
        /\ s \in DOMAIN risk_positions
        /\ risk_positions[s].size = acc_positions[s].size
        /\ risk_positions[s].entry_price = acc_positions[s].entry_price

(***************************************************************************)
(* Claims about Accounting.                                               *)
(***************************************************************************)
RECURSIVE SignedSum(_, _)
SignedSum(tr, s) ==
    IF tr = << >> THEN 0
    ELSE (IF tr[1].symbol = s THEN Signed(tr[1]) ELSE 0) + SignedSum(Tail(tr), s)

RECURSIVE FeeSum(_)
FeeSum(tr) == IF tr = << >> THEN 0 ELSE tr[1].commission + FeeSum(Tail(tr))

\* C17: positions[s].size is the sum of the signed quantities of the fills
\* record_fill has been given for s.
C17_SizeIsSumOfFills ==
    \A s \in Symbols :
        (IF s \in DOMAIN acc_positions THEN acc_positions[s].size ELSE 0) = SignedSum(trades, s)

\* C18: the realized P&L is the closed form over the fills, less their fees.
C18_RealizedClosedForm ==
    total_pnl = RatSub(ClosedForm(trades, 0).realized, RatInt(FeeSum(trades)))

\* C19: size = 0 iff side FLAT, size > 0 iff side LONG, size < 0 iff side SHORT.
C19_SideMatchesSize ==
    \A s \in DOMAIN acc_positions :
        acc_positions[s].side = (IF acc_positions[s].size = 0 THEN "FLAT"
                                 ELSE IF acc_positions[s].size > 0 THEN "LONG" ELSE "SHORT")

\* C20: a fill that increases a position makes the entry price the weighted
\* average, one that reduces it leaves the entry price unchanged, one that
\* reverses it through zero makes the entry price the fill price.
C20_EntryPriceRule ==
    [][ ( /\ Len(trades') = Len(trades) + 1
          /\ positions_updated' # positions_updated
          /\ trades'[Len(trades')].symbol \in DOMAIN acc_positions
          /\ acc_positions[trades'[Len(trades')].symbol].size # 0 )
        => LET fill == trades'[Len(trades')]
               cur == acc_positions[fill.symbol]
               new == acc_positions'[fill.symbol]
           IN  new.entry_price =
                 ClosedFormStep([ pos |-> (fill.symbol :> [ size |-> cur.size,
                                                           entry |-> cur.entry_price ]),
                                  realized |-> Zero ], fill, TRUE).pos[fill.symbol].entry ]_vars

(***************************************************************************)
(* Engine                                                                  *)
(***************************************************************************)
StrategyChecks == SelectSeq(checked, LAMBDA c : c.from # "api")
Approved == SelectSeq(checked, LAMBDA c : c.ret)

\* C21: every signal a loaded strategy generated was passed to check_signal,
\* in order, and the signals submitted to the OrderManager are exactly the
\* ones check_signal approved.
C21_SignalsRouted ==
    /\ Len(StrategyChecks) = Len(emitted)
    /\ \A k \in 1 .. Len(emitted) :
          k <= Len(StrategyChecks) =>
             /\ StrategyChecks[k].signal = emitted[k].signal
             /\ StrategyChecks[k].from = emitted[k].strategy
    /\ submitted = [ k \in 1 .. Len(Approved) |-> Approved[k].signal ]

Before(step, k) == \E j \in 1 .. k - 1 : shutdown_log[j] = step

\* C22: shutdown runs its steps in the stated order: no strategy is enabled
\* or active when cancel_all_orders is invoked, cancel_all_orders comes
\* before the stream is stopped, and the OrderManager's REST session is
\* closed after Accounting was closed.
C22_ShutdownOrder ==
    /\ enabled_at_cancel = {}
    /\ \A k \in 1 .. Len(shutdown_log) :
          /\ shutdown_log[k] = "data_ingester.stop"
                => Before("order_manager.cancel_all_orders", k)
          /\ shutdown_log[k] = "order_manager.close"
                => Before("accounting_manager.close", k)

Times(step) == Len(SelectSeq(shutdown_log, LAMBDA e : e = step))
AllSteps == { ShutdownSteps[k] : k \in 1 .. Len(ShutdownSteps) }

\* C23: whatever the number of shutdown() invocations, every step is executed
\* at most once, and exactly once when an invocation found the engine
\* running and all invocations are over.
C23_ShutdownOnce ==
    /\ \A step \in AllSteps : Times(step) <= 1
    /\ (shutdown_log # << >> /\ \A i \in Invocations : sd_pc[i] \in {"idle", "done"})
          => \A step \in AllSteps : Times(step) = 1

(***************************************************************************)
(* Stream client, depth messages, REST requests                            *)
(***************************************************************************)
\* C24: once MarketDataIngester.start has been called, the stream client is
\* eventually connected and listening with the four streams of every
\* configured symbol subscribed.
C24_StreamConnects ==
    (ingest_pc # "idle")
        ~> (is_connected /\ ws_pc = "listening" /\ IngestStreams \subseteq subscribed_streams)

\* C25: no _make_request call sends its request more than twice, whatever
\* the server answers.
C25_AtMostTwoSends == \A r \in Requests : sends[r] <= 2

\* C26: when start() gives up reconnecting, max_reconnect_attempts attempts
\* were counted since the last successful connection and on_error was
\* invoked with a CRITICAL event.
C26_GiveUpIsReported ==
    ws_pc = "gave_up" =>
        /\ reconnect_attempts = max_reconnect_attempts
        /\ \E k \in 1 .. Len(on_error_calls) : on_error_calls[k] = "CRITICAL"

\* C27: a data frame that arrives on a connection made by a reconnect is
\* delivered only after a SUBSCRIBE was sent on that connection.
C27_ResubscribedBeforeData ==
    \A k \in 1 .. Len(delivered) : delivered[k].reconnected => delivered[k].subscribed

\* the update stored for the same symbol before the k-th, 0 if there is none
Previous(k) ==
    LET earlier == { j \in 1 .. k - 1 : applied[j].symbol = applied[k].symbol }
    IN  IF earlier = {} THEN 0
        ELSE applied[CHOOSE j \in earlier : \A i \in earlier : i <= j].last_update_id

\* C28: an update is stored only if its id is the stored lastUpdateId + 1, so
\* the stored lastUpdateId of a symbol never decreases and never skips.
C28_DepthInSequence ==
    \A k \in 1 .. Len(applied) :
        Previous(k) # 0 => applied[k].last_update_id = Previous(k) + 1

(***************************************************************************)
(* Backtester                                                              *)
(***************************************************************************)
\* C29: the runs of run_backtest with the same strategy and data give the
\* same BacktestResult and the same fills, whether a run starts on a new
\* Backtester or on one whose earlier run consumed random numbers.
C29_Deterministic ==
    \A i, j \in 1 .. Len(results) : results[i] = results[j]

C29_Witness ==
    /\ Len(results) >= 2
    /\ rng_at_start[1] # rng_at_start[2]
    /\ results[1].trades # << >>

FillsOfOrder(k) == SelectSeq(bt_trades, LAMBDA f : f.order_id = k)

\* C30: a LIMIT order that is marketable at the current price is filled at
\* its own price, and one that is not marketable gets no fill and stays NEW.
C30_LimitFillRule ==
    \A k \in 1 .. Len(bt_orders) :
        LET o == bt_orders[k]
        IN  o.type = "LIMIT" =>
               IF Marketable(o, o.market)
               THEN Len(FillsOfOrder(k)) = 1 /\ FillsOfOrder(k)[1].price = o.price
               ELSE FillsOfOrder(k) = << >> /\ o.status = "NEW"


(***************************************************************************)
(* Strategies                                                              *)
(***************************************************************************)
\* C31: after any sequence of fills delivered through on_fill, the position
\* a strategy of any of the three classes keeps for a symbol is the sum of
\* the signed quantities of those fills.
C31_ShadowPosition ==
    \A symbol \in Symbols : st_positions[symbol] = SignedSum(st_fills, symbol)

LiveQuotes(symbol, side) ==
    { q \in 1 .. Len(quotes) :
         quotes[q].status = "live" /\ quotes[q].symbol = symbol /\ quotes[q].side = side }

\* C32: a refresh of the market maker cancels the quotes placed before it, so
\* that a symbol never has more than one live bid and one live ask.
C32_OneQuotePerSide ==
    \A symbol \in Symbols, side \in Sides : Cardinality(LiveQuotes(symbol, side)) <= 1

\* the order that closes a leg: a SELL of the size of a long leg, a BUY of
\* the absolute size of a short one
ClosingOrder(symbol, pos) ==
    IF pos > 0 THEN << MarketSignal(symbol, "SELL", pos) >>
    ELSE IF pos < 0 THEN << MarketSignal(symbol, "BUY", -pos) >>
    ELSE << >>

\* C33: whenever the pairs strategy closes a pair with both legs open, it
\* emits a market order closing each leg, whichever side the leg is on.
C33_BothLegsClosed ==
    \A k \in 1 .. Len(closes) :
        closes[k].signals = ClosingOrder(Pair.asset1, closes[k].pos1)
                              \o ClosingOrder(Pair.asset2, closes[k].pos2)

(***************************************************************************)
(* Stream dispatch and kline aggregation                                   *)
(***************************************************************************)
HandlerOf(kind) ==
    CASE kind = "@ticker" -> "on_market_data"
      [] kind = "@aggTrade" -> "on_market_data"
      [] kind = "@depth@100ms" -> "on_orderbook_update"
      [] kind = "@kline_1m" -> "on_kline_update"

\* C34: a frame of any of the four subscribed stream kinds reaches the
\* handler of its kind and is not dropped as an unknown stream type.
C34_SubscribedKindsDispatched ==
    \A k \in 1 .. Len(dispatched), stream \in IngestStreams :
        dispatched[k].stream = StreamName(stream)
            => dispatched[k].handler = HandlerOf(stream[2])

\* the aggregates of n consecutive bars each, one per n bars received
Aggregates(n) ==
    [ k \in 1 .. (bars_received \div n) |->
        [ open_time |-> n * (k - 1) + 1, close_time |-> n * k ] ]

\* C35: after any number of 1-minute bars the 5m, 15m and 1h buffers hold
\* one aggregate per 5, 15 and 60 consecutive bars, each bar in exactly one
\* aggregate of each interval.
C35_OneAggregatePerWindow ==
    \A i \in DOMAIN Timeframes : kline_buffers[i] = Aggregates(Timeframes[i])

(***************************************************************************)
(* Exposure, order tracking, stop(), signing, critical risk events         *)
(***************************************************************************)
\* C36: with every order of an approved signal filling in full, the net
\* position of a symbol never exceeds max_position_size in absolute value,
\* whatever the order of approvals and fills.
C36_PositionWithinLimit ==
    \A symbol \in Symbols : Abs(NetFilled(symbol, filled_orders)) <= config.max_position_size

\* the first update of an order is the response to its placement; a later
\* one with a terminal status is what update_order_status (or a cancel) saw
ObservedTerminal(o) ==
    \E j \in 1 .. Len(order_updates) :
        /\ order_updates[j].id = o
        /\ order_updates[j].status \in Terminal
        /\ \E i \in 1 .. j - 1 : order_updates[i].id = o

\* C37: an order that update_order_status observed in a terminal status is
\* not in active_orders and is not among the orders cancel_all_orders
\* gathers for cancellation.
C37_TerminalOrdersLeave ==
    \A o \in Orders :
        ObservedTerminal(o) => o \notin DOMAIN active_orders /\ o \notin to_cancel

\* C38: once stop() has returned the client is not connected and no frame
\* is delivered to the handlers any more.
C38_StoppedStaysStopped ==
    /\ stop_returned => ~is_connected
    /\ \A k \in 1 .. Len(delivered) : ~delivered[k].after_stop

\* C39: every signature of a signed request, the first and the one of a
\* re-send after 429, is computed over the caller's parameters plus the
\* timestamp, never over a set that holds a 'signature' entry.
C39_SignedOverOwnParams ==
    \A r \in Requests :
        \A k \in 1 .. Len(signed_over[r]) :
            signed_over[r][k] = CallParams \cup {"timestamp"}

IsCritical(op) ==
    /\ op.op = "check_signal"
    /\ \E k \in 1 .. Len(op.events) : op.events[k].severity = "CRITICAL"

\* a step in which the engine ran check_signal
Checks == risk_checks_performed' = risk_checks_performed + 1

\* C40: a step in which check_signal raised a CRITICAL event leaves no
\* strategy active and every strategy that was active disabled; a check
\* rejected by the breach gate is such a step; and is_enabled of a strategy
\* becomes true only in an enable_strategy step, so reset_risk_breach
\* re-enables nothing.
C40_CriticalDisablesAll ==
    [][ /\ (Checks /\ IsCritical(last_op'))
            => /\ active_strategies' = {}
               /\ \A s \in active_strategies : ~is_enabled'[s]
        /\ (Checks /\ is_risk_breach)
            => /\ IsCritical(last_op')
               /\ ~last_op'.ret
        /\ \A s \in DOMAIN is_enabled :
              (~is_enabled[s] /\ is_enabled'[s])
                 => /\ s \notin active_strategies
                    /\ active_strategies' = active_strategies \cup {s}
                    /\ UNCHANGED ledgerVars ]_vars

\* the breach gate rejected a signal while a strategy was enabled, the
\* breach was then reset, and the strategy is still disabled
C40_Witness ==
    /\ last_op.op = "reset_risk_breach"
    /\ IsCritical(prev_op)
    /\ prev_op.breach
    /\ checked # << >>
    /\ checked[Len(checked)].disabled # {}
    /\ active_strategies = {}
    /\ \A s \in strategies : ~is_enabled[s]

====
